---- MODULE Spec2Model ----
(***************************************************************************)
(* Model of the RAG document downloader and its on-disk cache              *)
(* (pkg/rag/downloader.go, pkg/rag/cache.go).  Strings are sequences of    *)
(* one-character strings, files are values of a map from cache paths, and  *)
(* every file-system or network access of Download is one step of a call.  *)
(***************************************************************************)
EXTENDS Integers, Sequences, FiniteSets, TLC

\* ------------------------------------------------------------------ bounds

\* DownloaderConfig.MaxSize, scaled down: the largest accepted body length.
MaxSize == 2

\* The longest list of locators processDocuments is called with.
MaxDocs == 2

\* The longest path ValidatePath is tried with.
MaxPathLen == 4

\* ----------------------------------------------------------------- strings

Min(a, b) == IF a < b THEN a ELSE b

\* int64, scaled down to four bits: the largest value, and addition as the
\* machine does it, wrapping round to the negative numbers.
MaxInt64 == 7

Add64(a, b) ==
  LET sum == a + b
  IN IF sum > MaxInt64 THEN sum - 2 * (MaxInt64 + 1)
     ELSE IF sum < -(MaxInt64 + 1) THEN sum + 2 * (MaxInt64 + 1)
     ELSE sum

\* time.Duration counts nanoseconds; time.Second, 10^9 of them, is scaled
\* down to 10^3.
Second == 1000

EmptyStr == <<>>

LowerOf ==
  [c \in {"A", "P", "L", "I", "C", "T", "O", "N", "J", "S", "H", "F", "X", "M", "D"} |->
     CASE c = "A" -> "a" [] c = "P" -> "p" [] c = "L" -> "l" [] c = "I" -> "i"
       [] c = "C" -> "c" [] c = "T" -> "t" [] c = "O" -> "o" [] c = "N" -> "n"
       [] c = "J" -> "j" [] c = "S" -> "s" [] c = "H" -> "h" [] c = "F" -> "f"
       [] c = "X" -> "x" [] c = "M" -> "m" [] c = "D" -> "d"]


IsLetter(c) ==
  \/ c \in DOMAIN LowerOf
  \/ c \in {"a", "b", "c", "e", "f", "h", "i", "j", "l", "m", "n", "o", "p", "r", "s",
         "t", "u", "v", "x", "y"}

\* strings.ToLower
ToLower(s) == [i \in 1..Len(s) |-> IF s[i] \in DOMAIN LowerOf THEN LowerOf[s[i]] ELSE s[i]]

\* strings.HasPrefix
HasPrefix(s, p) == Len(p) <= Len(s) /\ SubSeq(s, 1, Len(p)) = p

\* strings.Index for a one-character separator: 0 when absent.
IndexOf(s, ch) ==
  IF \E i \in 1..Len(s) : s[i] = ch
  THEN CHOOSE i \in 1..Len(s) : s[i] = ch /\ \A j \in 1..(i - 1) : s[j] # ch
  ELSE 0

\* strings.TrimSpace
TrimSpace(s) ==
  IF \A i \in 1..Len(s) : s[i] = " " THEN EmptyStr
  ELSE LET lo == CHOOSE i \in 1..Len(s) : s[i] # " " /\ \A j \in 1..(i - 1) : s[j] = " "
           hi == CHOOSE i \in 1..Len(s) : s[i] # " " /\ \A j \in (i + 1)..Len(s) : s[j] = " "
       IN SubSeq(s, lo, hi)

\* encoding/json on a string: the text is coerced to valid UTF-8, each byte that
\* is not part of a valid sequence ("0xFF" here) becoming U+FFFD.
JsonSymbol(ch) == IF ch = "0xFF" THEN "U+FFFD" ELSE ch

JsonString(s) == [i \in 1..Len(s) |-> JsonSymbol(s[i])]

\* ---------------------------------------------------------------- locators

Url ==
  [a |-> <<"h", "t", "t", "p", "s", ":", "/", "/", "x", "/", "a">>,
   b |-> <<"h", "t", "t", "p", ":", "/", "/", "x", "/", "b">>,
   ftp |-> <<"f", "t", "p", ":", "/", "/", "x", "/", "a">>,
   noHost |-> <<"h", "t", "t", "p", "s", ":", "/", "/", "/", "a">>,
   local |-> <<"/", "x", "/", "a">>,
   noScheme |-> <<":", "a">>]

Locators == {Url.a, Url.b, Url.ftp, Url.noHost, Url.local, Url.noScheme}

\* url.Parse as validateURL uses it: [ok, Scheme, Host].  The scheme (net/url
\* getScheme) is the letters before the first ':'; there is none when another
\* character comes first, and a string starting with ':' is an error.
ParseURL(s) ==
  LET k == IF \E i \in 1..Len(s) : ~IsLetter(s[i])
           THEN CHOOSE i \in 1..Len(s) :
                  ~IsLetter(s[i]) /\ \A j \in 1..(i - 1) : IsLetter(s[j])
           ELSE 0
      hasScheme == k > 1 /\ s[k] = ":"
      scheme == IF hasScheme THEN ToLower(SubSeq(s, 1, k - 1)) ELSE EmptyStr
      rest == IF hasScheme THEN SubSeq(s, k + 1, Len(s)) ELSE s
      firstSeg == IF IndexOf(rest, "/") = 0 THEN rest
                  ELSE SubSeq(rest, 1, IndexOf(rest, "/") - 1)
      authority == LET a == SubSeq(rest, 3, Len(rest))
                   IN IF IndexOf(a, "/") = 0 THEN a ELSE SubSeq(a, 1, IndexOf(a, "/") - 1)
  IN IF k = 1 /\ s[1] = ":"
     THEN [ok |-> FALSE, Scheme |-> EmptyStr, Host |-> EmptyStr]
     ELSE IF ~HasPrefix(rest, <<"/">>) /\ scheme = EmptyStr /\ IndexOf(firstSeg, ":") # 0
     THEN [ok |-> FALSE, Scheme |-> EmptyStr, Host |-> EmptyStr]
     ELSE IF (scheme # EmptyStr \/ ~HasPrefix(rest, <<"/", "/", "/">>))
             /\ HasPrefix(rest, <<"/", "/">>)
     THEN [ok |-> TRUE, Scheme |-> scheme, Host |-> authority]
     ELSE [ok |-> TRUE, Scheme |-> scheme, Host |-> EmptyStr]


\* validateURL: TRUE when the locator may be downloaded from.
validateURL_AnyScheme(urlStr) ==
  LET p == ParseURL(urlStr) IN p.ok /\ p.Host # EmptyStr

validateURL(urlStr) ==
  LET p == ParseURL(urlStr)
  IN /\ p.ok
     /\ p.Scheme \in {<<"h", "t", "t", "p">>, <<"h", "t", "t", "p", "s">>}
     /\ p.Host # EmptyStr

\* ------------------------------------------------------------ content types

Ct ==
  [html |-> <<"t", "e", "x", "t", "/", "h", "t", "m", "l", ";", " ", "c", "h", "a", "r", "s", "e", "t", "=", "u", "t", "f", "-", "8">>,
   json |-> <<"A", "p", "p", "l", "i", "c", "a", "t", "i", "o", "n", "/", "J", "S", "O", "N">>,
   octet |-> <<"a", "p", "p", "l", "i", "c", "a", "t", "i", "o", "n", "/", "o", "c", "t", "e", "t", "-", "s", "t", "r", "e", "a", "m">>]

isTextContentType(contentType) ==
  LET k == IndexOf(contentType, ";")
      first == IF k = 0 THEN contentType ELSE SubSeq(contentType, 1, k - 1)
      ct == TrimSpace(ToLower(first))
      textTypes ==
        { <<"t", "e", "x", "t", "/">>,
        <<"a", "p", "p", "l", "i", "c", "a", "t", "i", "o", "n", "/", "j", "s", "o", "n">>,
        <<"a", "p", "p", "l", "i", "c", "a", "t", "i", "o", "n", "/", "x", "m", "l">>,
        <<"a", "p", "p", "l", "i", "c", "a", "t", "i", "o", "n", "/", "j", "a", "v", "a", "s", "c", "r", "i", "p", "t">>,
        <<"a", "p", "p", "l", "i", "c", "a", "t", "i", "o", "n", "/", "x", "-", "y", "a", "m", "l">>,
        <<"a", "p", "p", "l", "i", "c", "a", "t", "i", "o", "n", "/", "y", "a", "m", "l">> }
  IN \E textType \in textTypes : HasPrefix(ct, textType)

\* The Content-Type headers a server is tried with: media types on the list,
\* media types whose name starts with a listed name (application/json-seq,
\* application/xml-dtd), others and none, each bare or with parameters, in
\* lower or upper case, with or without a leading blank.
Mt ==
  [textHtml |-> <<"t", "e", "x", "t", "/", "h", "t", "m", "l">>,
   textPlain |-> <<"t", "e", "x", "t", "/", "p", "l", "a", "i", "n">>,
   textBare |-> <<"t", "e", "x", "t", "/">>,
   text |-> <<"t", "e", "x", "t">>,
   json |-> <<"a", "p", "p", "l", "i", "c", "a", "t", "i", "o", "n", "/", "j", "s", "o", "n">>,
   xml |-> <<"a", "p", "p", "l", "i", "c", "a", "t", "i", "o", "n", "/", "x", "m", "l">>,
   javascript |-> <<"a", "p", "p", "l", "i", "c", "a", "t", "i", "o", "n", "/", "j", "a", "v", "a", "s", "c", "r", "i", "p", "t">>,
   xYaml |-> <<"a", "p", "p", "l", "i", "c", "a", "t", "i", "o", "n", "/", "x", "-", "y", "a", "m", "l">>,
   yaml |-> <<"a", "p", "p", "l", "i", "c", "a", "t", "i", "o", "n", "/", "y", "a", "m", "l">>,
   jsonSeq |-> <<"a", "p", "p", "l", "i", "c", "a", "t", "i", "o", "n", "/", "j", "s", "o", "n", "-", "s", "e", "q">>,
   xmlDtd |-> <<"a", "p", "p", "l", "i", "c", "a", "t", "i", "o", "n", "/", "x", "m", "l", "-", "d", "t", "d">>,
   octet |-> <<"a", "p", "p", "l", "i", "c", "a", "t", "i", "o", "n", "/", "o", "c", "t", "e", "t", "-", "s", "t", "r", "e", "a", "m">>,
   pdf |-> <<"a", "p", "p", "l", "i", "c", "a", "t", "i", "o", "n", "/", "p", "d", "f">>,
   png |-> <<"i", "m", "a", "g", "e", "/", "p", "n", "g">>,
   ldJson |-> <<"a", "p", "p", "l", "i", "c", "a", "t", "i", "o", "n", "/", "l", "d", "+", "j", "s", "o", "n">>]

MediaTypes ==
  {Mt.textHtml, Mt.textPlain, Mt.textBare, Mt.text, Mt.json, Mt.xml, Mt.javascript,
   Mt.xYaml, Mt.yaml, Mt.jsonSeq, Mt.xmlDtd, Mt.octet, Mt.pdf, Mt.png, Mt.ldJson, EmptyStr}

ToUpper(s) ==
  [i \in 1..Len(s) |->
     IF \E u \in DOMAIN LowerOf : LowerOf[u] = s[i]
     THEN CHOOSE u \in DOMAIN LowerOf : LowerOf[u] = s[i]
     ELSE s[i]]

ContentTypes ==
  {pad \o mt \o param :
     pad \in {EmptyStr, <<" ">>},
     mt \in MediaTypes \cup {ToUpper(m) : m \in MediaTypes},
     param \in {EmptyStr, <<";">>,
                <<";", " ", "c", "h", "a", "r", "s", "e", "t", "=", "u", "t", "f", "-", "8">>}}

\* --------------------------------------------------------------- cache.go

CacheDir == "cache"

\* The environment variables read (DON_RAG_CACHE_DIR is the one the
\* documentation names), and the values of runtime.GOOS.
CacheDirEnv == "MCPSHELL_RAG_CACHE_DIR"
EnvNames == {CacheDirEnv, "DON_RAG_CACHE_DIR", "LOCALAPPDATA", "XDG_CACHE_HOME", "HOME"}
documentExt == ".txt"
metadataExt == ".meta.json"

\* hashURL: SHA-256 of the exact locator string, modelled as an injective tag
\* of the string (no normalisation, no collisions).
hashURL_Constant(url) == [alg |-> "sha256", of |-> EmptyStr]

hashURL(url) == [alg |-> "sha256", of |-> url]

\* ComputeContentHash: SHA-256 of the content bytes, injective in the same way.
ComputeContentHash(content) == [alg |-> "sha256", of |-> content]

GetCachedDocumentPath(cacheDir, url) == <<cacheDir, "documents", hashURL(url), documentExt>>

GetCachedMetadataPath_DocumentExt(cacheDir, url) ==
  <<cacheDir, "documents", hashURL(url), documentExt>>

GetCachedMetadataPath(cacheDir, url) == <<cacheDir, "documents", hashURL(url), metadataExt>>

NoPath == <<>>

Paths ==
  {GetCachedDocumentPath(CacheDir, u) : u \in Locators}
    \cup {GetCachedMetadataPath(CacheDir, u) : u \in Locators}

\* File values: no file, raw bytes, a JSON object, or a JSON file cut short by
\* a failed write (not parseable).
Absent == [kind |-> "absent"]
Bytes(b) == [kind |-> "bytes", data |-> b]
Json(obj) == [kind |-> "json", obj |-> obj]
Truncated == [kind |-> "truncated"]

\* time.Time values, by the year and the instant they denote: the zero Time,
\* and what time.Now() reads during a download (one reading stands for all).
ZeroTime == [year |-> 1, at |-> 0]
Now == [year |-> 2024, at |-> 1]

\* The zero CacheMetadata.  ETag and LastModified are strings of at most one
\* symbol, written as that symbol.
NoMeta ==
  [URL |-> EmptyStr, DownloadedAt |-> ZeroTime, ContentHash |-> ComputeContentHash(<<>>),
   ETag |-> "", LastModified |-> "", ContentType |-> EmptyStr, Size |-> 0]

\* Time.MarshalJSON: an error for a year outside [0, 9999].
CanMarshal(meta) == meta.DownloadedAt.year \in 0..9999

\* json.MarshalIndent of CacheMetadata: etag and last_modified are omitempty.
MarshalMeta(meta) ==
  LET keys == {"url", "downloaded_at", "content_hash", "content_type", "size"}
                \cup (IF meta.ETag # "" THEN {"etag"} ELSE {})
                \cup (IF meta.LastModified # "" THEN {"last_modified"} ELSE {})
  IN [k \in keys |->
        CASE k = "url" -> JsonString(meta.URL)
          [] k = "downloaded_at" -> meta.DownloadedAt
          [] k = "content_hash" -> meta.ContentHash
          [] k = "content_type" -> JsonString(meta.ContentType)
          [] k = "size" -> meta.Size
          [] k = "etag" -> JsonSymbol(meta.ETag)
          [] k = "last_modified" -> JsonSymbol(meta.LastModified)]

\* json.Unmarshal into a zero CacheMetadata: absent keys keep the zero value.
UnmarshalMeta(obj) ==
  [URL |-> IF "url" \in DOMAIN obj THEN obj["url"] ELSE EmptyStr,
   DownloadedAt |-> IF "downloaded_at" \in DOMAIN obj THEN obj["downloaded_at"] ELSE ZeroTime,
   ContentHash |-> IF "content_hash" \in DOMAIN obj THEN obj["content_hash"]
                   ELSE ComputeContentHash(<<>>),
   ETag |-> IF "etag" \in DOMAIN obj THEN obj["etag"] ELSE "",
   LastModified |-> IF "last_modified" \in DOMAIN obj THEN obj["last_modified"] ELSE "",
   ContentType |-> IF "content_type" \in DOMAIN obj THEN obj["content_type"] ELSE EmptyStr,
   Size |-> IF "size" \in DOMAIN obj THEN obj["size"] ELSE 0]

\* LoadMetadata on a file value: [ok, meta]; a missing or unparseable file is
\* an error (an unreadable one fails the same way).
LoadMetadata(file) ==
  IF file.kind = "json" THEN [ok |-> TRUE, meta |-> UnmarshalMeta(file.obj)]
  ELSE [ok |-> FALSE, meta |-> NoMeta]

\* ------------------------------------------------------------------ network

\* The outcome of one HTTP exchange: a transport failure (no response), or a
\* response with its status line, headers and the bytes sent after them.
TransportFailure ==
  [kind |-> "fail", status |-> 0, ctype |-> EmptyStr, cl |-> -1, payload |-> <<>>,
   etag |-> "", lm |-> ""]

Response(status, ctype, cl, payload, etag, lm) ==
  [kind |-> "resp", status |-> status, ctype |-> ctype, cl |-> cl, payload |-> payload,
   etag |-> etag, lm |-> lm]

\* A payload of n bytes of value v.
Fill(v, n) == [i \in 1..n |-> v]

\* The ETag and Last-Modified headers a server may send for a locator: the host
\* of Url.b sends none.
ValidatorPairs(urlStr) ==
  IF urlStr = Url.b THEN {<<"", "">>}
  ELSE {<<"", "">>, <<"e1", "">>, <<"", "m1">>, <<"e2", "m2">>}

\* What the server may answer to a GET of a locator: nothing, a status other
\* than 200, a 200 whose Content-Type the validation must turn down (the
\* last: no header at all), or a 200 with one of two documents (the byte its
\* body repeats and the Content-Type it is served with).
GetOutcomes(urlStr) ==
  {TransportFailure}
    \cup {Response(st, Ct.html, -1, <<>>, "", "") : st \in {204, 304, 404, 500}}
    \cup {Response(200, ct, -1, <<1>>, "", "") : ct \in {Ct.octet, EmptyStr}}
    \cup {Response(200, d[2], cl, Fill(d[1], n), vp[1], vp[2]) :
            d \in {<<1, Ct.html>>, <<2, Ct.json>>},
            cl \in -1..(MaxSize + 2), n \in 0..(MaxSize + 2),
            vp \in ValidatorPairs(urlStr)}

\* The answers of a server that gives the same answer to every GET: a 200
\* with one byte under each of the Content-Type headers, and a 200 text/html
\* with each combination of declared Content-Length and bytes sent.
ServerResponses ==
  {Response(200, ct, -1, <<1>>, "", "") : ct \in ContentTypes}
    \cup {Response(200, Ct.html, cl, Fill(1, n), "", "") :
            cl \in -1..(MaxSize + 2), n \in 0..(MaxSize + 2)}

\* resp.Body as net/http presents it: with a declared Content-Length the body
\* is the first cl bytes sent, and a shorter payload ends in an unexpected EOF.
BodyOf(resp) ==
  IF resp.cl >= 0 THEN SubSeq(resp.payload, 1, Min(resp.cl, Len(resp.payload)))
  ELSE resp.payload

\* io.ReadAll(io.LimitReader(resp.Body, n)): [err, data].
ReadLimited(resp, n) ==
  LET body == BodyOf(resp)
  IN IF n <= 0 THEN [err |-> FALSE, data |-> <<>>]
     ELSE [err |-> resp.cl >= 0 /\ Len(resp.payload) < resp.cl /\ n > Len(body),
           data |-> SubSeq(body, 1, Min(n, Len(body)))]

\* ------------------------------------------------------------------- errors

NoErr == [kind |-> "nil", status |-> 0]
Err(kind) == [kind |-> kind, status |-> 0]
ErrHTTP(status) == [kind |-> "ErrDownloadFailed", status |-> status]

\* What a caller can tell an error of Download by without reading its message:
\* the type errors.As finds in the chain (every fmt.Errorf of Download wraps
\* with %w).  ErrDownloadFailed keeps the status in its Reason text only; the
\* errors of os.MkdirAll and os.WriteFile are *fs.PathError; a body cut short
\* is io.ErrUnexpectedEOF.
GoType(err) ==
  CASE err.kind \in {"MkdirAll", "WriteFile"} -> "*fs.PathError"
    [] err.kind = "ReadBody" -> "io.ErrUnexpectedEOF"
    [] OTHER -> err.kind

\* ------------------------------------------------------- downloadWithValidation

\* The GET of downloadWithValidation on the server's answer: [err, content, meta].
DownloadFail(err) == [err |-> err, content |-> <<>>, meta |-> NoMeta]

\* downloadWithValidation, line 191: only 200 is a success.
StatusOK_Any2xx(status) == status \in 200..299

StatusOK(status) == status = 200

\* downloadWithValidation, lines 227-236: the metadata of a download.
NewMetadata_DeclaredSize(urlStr, resp, content) ==
  [URL |-> urlStr, DownloadedAt |-> Now, ContentHash |-> ComputeContentHash(content),
   ETag |-> resp.etag, LastModified |-> resp.lm, ContentType |-> resp.ctype,
   Size |-> resp.cl]

NewMetadata(urlStr, resp, content) ==
  [URL |-> urlStr,
   DownloadedAt |-> Now,
   ContentHash |-> ComputeContentHash(content),
   ETag |-> resp.etag,
   LastModified |-> resp.lm,
   ContentType |-> resp.ctype,
   Size |-> Len(content)]

downloadWithValidation(resp, urlStr, maxSize) ==
  IF resp.kind = "fail" THEN DownloadFail(Err("ErrDownloadFailed"))
  ELSE IF ~StatusOK(resp.status) THEN DownloadFail(ErrHTTP(resp.status))
  ELSE IF ~isTextContentType(resp.ctype) THEN DownloadFail(Err("ErrNotTextFile"))
  ELSE IF resp.cl > maxSize THEN DownloadFail(Err("ErrFileTooLarge"))
  ELSE LET rd == ReadLimited(resp, Add64(maxSize, 1))
       IN IF rd.err THEN DownloadFail(Err("ReadBody"))
          ELSE IF Len(rd.data) > maxSize THEN DownloadFail(Err("ErrFileTooLarge"))
          ELSE [err |-> NoErr, content |-> rd.data,
                meta |-> NewMetadata(urlStr, resp, rd.data)]

\* checkCacheFreshness on the HEAD outcome: TRUE when the cache is to be used.
\* downloadWithValidation, lines 205-214: the body bytes consumed from the
\* connection, none when the declared length is refused.
BytesRead(resp, maxSize) ==
  IF resp.kind = "fail" \/ ~StatusOK(resp.status) \/ ~isTextContentType(resp.ctype)
       \/ resp.cl > maxSize
  THEN 0
  ELSE Len(ReadLimited(resp, Add64(maxSize, 1)).data)

checkCacheFreshness_FailureOnly(head) == head = 0

checkCacheFreshness_NotModifiedOnly(head) == head = 304

checkCacheFreshness_AnySuccess(head) == head = 0 \/ head = 304 \/ head = 200

checkCacheFreshness(head) == head = 0 \/ head = 304

\* -------------------------------------------------------------------- state

VARIABLES
  files,     \* the cache root: path -> file value
  docsDir,   \* whether <cache root>/documents exists
  calls,     \* caller -> the Download call it runs or last ran
  returned,  \* locator -> the paths Download has returned for it with a nil error
  cancelled, \* whether the caller's context is done (ctx.Done() is closed)
  served,    \* the answer of the server to any GET, where a run fixes it
  walk,      \* the ScanDirectory call in progress or last made
  batch,     \* the processDocuments call in progress or last made
  trip,      \* the SaveMetadata and LoadMetadata calls made on their own
  boot       \* the NewDownloader call: configuration, environment, result

vars == <<files, docsDir, calls, returned, cancelled, served, walk, batch, trip, boot>>

\* What a step of Download never touches.
outside == <<cancelled, served, walk, batch, trip, boot>>

\* The validators of the metadata stored for a locator.
StoredAt(fs, urlStr) ==
  LET ld == LoadMetadata(fs[GetCachedMetadataPath(CacheDir, urlStr)])
  IN [ok |-> ld.ok, ETag |-> ld.meta.ETag, LastModified |-> ld.meta.LastModified]

\* A call of Download(urlStr) by a downloader whose config.ForceRefresh is
\* force.  History is kept with it: stored, the validators of the metadata
\* stored when the call began, and resp, the body and headers of the response
\* its GET accepted.
NewCall(urlStr, force) ==
  [pc |-> "idle", url |-> urlStr, force |-> force,
   exists |-> FALSE, cachedPath |-> NoPath,
   stored |-> [ok |-> FALSE, ETag |-> "", LastModified |-> ""],
   heads |-> 0, head |-> -1, inm |-> "", ims |-> "",
   gets |-> 0, get |-> -1,
   resp |-> [body |-> <<>>, etag |-> "", lm |-> "", ctype |-> EmptyStr],
   content |-> <<>>, meta |-> NoMeta,
   mkdir |-> "none", docWrite |-> "none", metaWrite |-> "none",
   ret |-> NoPath, err |-> NoErr]

\* GetCachedPath: os.Stat of the content path.  The stat of a file that exists
\* succeeds here; a stat failing for another reason than absence (lines
\* 127-132) also yields exists = false and is only logged by Download.
GetCachedPath_MetadataPath(fs, urlStr) ==
  LET docPath == GetCachedDocumentPath(CacheDir, urlStr)
  IN IF fs[docPath].kind = "absent" THEN [path |-> NoPath, exists |-> FALSE]
     ELSE [path |-> GetCachedMetadataPath(CacheDir, urlStr), exists |-> TRUE]

GetCachedPath(fs, urlStr) ==
  LET docPath == GetCachedDocumentPath(CacheDir, urlStr)
  IN IF fs[docPath].kind = "absent" THEN [path |-> NoPath, exists |-> FALSE]
     ELSE [path |-> docPath, exists |-> TRUE]

\* Download, line 81: whether the cached copy is considered at all.
UseCache_IgnoreForce(exists, force) == exists

UseCache(exists, force) == exists /\ ~force

\* ValidateCache, line 148: no stored validators, the cache counts as valid.
NoValidators_Inverted(meta) == meta.ETag # "" /\ meta.LastModified # ""

NoValidators(meta) == meta.ETag = "" /\ meta.LastModified = ""

\* os.WriteFile: the file after the write.  A write may fail before the file is
\* opened (the file is as before) or after it was truncated (a part is left).
WriteOutcomes == {"ok", "open", "partial"}

WriteFile(fs, path, whole, part, outcome) ==
  CASE outcome = "ok" -> [fs EXCEPT ![path] = whole]
    [] outcome = "open" -> fs
    [] outcome = "partial" -> [fs EXCEPT ![path] = part]

\* The bytes a failed content write may leave: a strict prefix of the content.
PartialBytes(content) == {SubSeq(content, 1, n) : n \in 0..(Len(content) - 1)} \cup {<<>>}

\* SaveMetadata, lines 120-127, the directory being there: marshal, then write;
\* nothing is written when marshalling fails.
SaveMetadata(fs, path, meta, outcome) ==
  IF ~CanMarshal(meta) THEN fs
  ELSE WriteFile(fs, path, Json(MarshalMeta(meta)), Truncated, outcome)

\* Download, lines 109-111: a failed content write ends the call.
DocWriteFatal_Ignored(outcome) == FALSE

DocWriteFatal(outcome) == outcome # "ok"

\* Download, lines 114-119: the error of a failed metadata write is logged only.
AfterSaveMetadata_Fatal(outcome, docPath) ==
  IF outcome = "ok" THEN [ret |-> docPath, err |-> NoErr]
  ELSE [ret |-> NoPath, err |-> Err("SaveMetadata")]

AfterSaveMetadata(outcome, docPath) == [ret |-> docPath, err |-> NoErr]

Callers == {1}

\* No fixed answer, no scan and no batch going on.
NoServed == [kind |-> "any"]
NoWalk ==
  [pc |-> "idle", dirPath |-> <<>>, recursive |-> FALSE, absPath |-> <<>>,
   todo |-> <<>>, visited |-> <<>>, files |-> <<>>, ret |-> <<>>, err |-> NoErr]
NoBatchErr == [kind |-> "nil", names |-> <<>>, cause |-> NoErr]
NoBatch ==
  [pc |-> "idle", docs |-> <<>>, i |-> 1, processedDocs |-> <<>>, parts |-> <<>>,
   ret |-> <<>>, err |-> NoBatchErr]
NoTrip ==
  [pc |-> "idle", path |-> NoPath, entry |-> NoMeta, mkdir |-> "none", write |-> "none",
   err |-> NoErr, loaded |-> [ok |-> FALSE, meta |-> NoMeta]]
\* The DownloaderConfig of ProcessRAGSources (rag.go:26-30) and DefaultConfig
\* (types.go:102-110): Timeout, a time.Duration, and MaxSize, 10 MB scaled.
AgentConfig == [Timeout |-> 30, MaxSize |-> MaxSize]

DefaultConfig == [Timeout |-> 30 * Second, MaxSize |-> MaxSize]

\* ValidateConfig: the logger is there.
ValidateConfig(config) == config.Timeout > 0 /\ config.MaxSize > 0

NoBoot ==
  [pc |-> "idle", config |-> AgentConfig, configDir |-> EmptyStr,
   env |-> [name \in EnvNames |-> EmptyStr], goos |-> "linux", mkdir |-> "none",
   cacheDir |-> EmptyStr, timeout |-> 0, err |-> NoErr]

Init ==
  /\ \E foreign \in {Absent, Bytes(<<1>>)} :
       files = [p \in Paths |->
                  IF p = GetCachedDocumentPath(CacheDir, Url.ftp) THEN foreign ELSE Absent]
  /\ docsDir = (files[GetCachedDocumentPath(CacheDir, Url.ftp)] # Absent)
  /\ calls = [c \in Callers |-> NewCall(EmptyStr, FALSE)]
  /\ returned = [u \in Locators |-> {}]
  /\ cancelled = FALSE
  /\ served = NoServed
  /\ walk = NoWalk
  /\ batch = NoBatch
  /\ trip = NoTrip
  /\ boot = NoBoot

\* The call goes on.
Goes(c, call) ==
  /\ calls' = [calls EXCEPT ![c] = call]
  /\ UNCHANGED <<returned, outside>>

\* The call returns (ret, err).
Returns(c, call, ret, err) ==
  /\ calls' = [calls EXCEPT ![c] = [call EXCEPT !.pc = "done", !.ret = ret, !.err = err]]
  /\ returned' = IF err = NoErr THEN [returned EXCEPT ![call.url] = @ \cup {ret}]
                 ELSE returned
  /\ UNCHANGED outside

\* Download, lines 69-90: validate the locator, stat the content file.
Begin(c, urlStr, force) ==
  /\ calls[c].pc \in {"idle", "done"}
  /\ UNCHANGED <<files, docsDir>>
  /\ LET call == NewCall(urlStr, force)
         st == GetCachedPath(files, urlStr)
     IN IF ~validateURL(urlStr)
        THEN Returns(c, call, NoPath, Err("ErrInvalidURL"))
        ELSE Goes(c, [call EXCEPT !.exists = st.exists, !.cachedPath = st.path,
                                  !.stored = StoredAt(files, urlStr),
                                  !.pc = IF UseCache(st.exists, force)
                                         THEN "validate" ELSE "fetch"])

\* ValidateCache, lines 138-151: load the metadata, look for validators.
Validate_TrustsContent(c) ==
  /\ calls[c].pc = "validate"
  /\ UNCHANGED <<files, docsDir>>
  /\ LET call == calls[c]
         ld == LoadMetadata(files[GetCachedMetadataPath(CacheDir, call.url)])
     IN IF ~ld.ok \/ NoValidators(ld.meta) THEN Returns(c, call, call.cachedPath, NoErr)
        ELSE Goes(c, [call EXCEPT !.pc = "head", !.inm = ld.meta.ETag,
                                  !.ims = ld.meta.LastModified])

Validate(c) ==
  /\ calls[c].pc = "validate"
  /\ UNCHANGED <<files, docsDir>>
  /\ LET call == calls[c]
         ld == LoadMetadata(files[GetCachedMetadataPath(CacheDir, call.url)])
     IN IF ~ld.ok THEN Goes(c, [call EXCEPT !.pc = "fetch"])
        ELSE IF NoValidators(ld.meta) THEN Returns(c, call, call.cachedPath, NoErr)
        ELSE Goes(c, [call EXCEPT !.pc = "head", !.inm = ld.meta.ETag,
                                  !.ims = ld.meta.LastModified])

\* checkCacheFreshness, lines 242-271: the conditional HEAD, answered with one
\* of outcomes (a status, or 0 for a transport failure).
CheckFreshnessOf_Retry(c, outcomes) ==
  /\ calls[c].pc = "head"
  /\ UNCHANGED <<files, docsDir>>
  /\ \E head \in outcomes :
       LET call == [calls[c] EXCEPT !.heads = @ + 1, !.head = head]
       IN IF head = 0 /\ call.heads = 1 THEN Goes(c, call)
          ELSE IF checkCacheFreshness(head) THEN Returns(c, call, call.cachedPath, NoErr)
          ELSE Goes(c, [call EXCEPT !.pc = "fetch"])

CheckFreshnessOf(c, outcomes) ==
  /\ calls[c].pc = "head"
  /\ UNCHANGED <<files, docsDir>>
  /\ \E head \in outcomes :
       LET call == [calls[c] EXCEPT !.heads = @ + 1, !.head = head]
       IN IF checkCacheFreshness(head) THEN Returns(c, call, call.cachedPath, NoErr)
          ELSE Goes(c, [call EXCEPT !.pc = "fetch"])

CheckFreshness(c) == CheckFreshnessOf(c, {0, 200, 304, 404})

\* Download, lines 92-97: the GET and its validation by a downloader whose
\* config.MaxSize is maxSize, the server answering with one of outcomes.  The
\* request is made with the caller's context (http.NewRequestWithContext,
\* line 179): once the context is done, the exchange fails.
FetchUnder(c, outcomes, maxSize) ==
  /\ calls[c].pc = "fetch"
  /\ UNCHANGED <<files, docsDir>>
  /\ \E resp \in (IF cancelled THEN {TransportFailure} ELSE outcomes) :
       LET call == [calls[c] EXCEPT !.gets = @ + 1, !.get = resp.status]
           dl == downloadWithValidation(resp, call.url, maxSize)
       IN IF dl.err # NoErr THEN Returns(c, call, NoPath, dl.err)
          ELSE Goes(c, [call EXCEPT !.pc = "mkdir",
                                    !.resp = [body |-> BodyOf(resp), etag |-> resp.etag,
                                              lm |-> resp.lm, ctype |-> resp.ctype],
                                    !.content = dl.content, !.meta = dl.meta])

FetchOf(c, outcomes) == FetchUnder(c, outcomes, MaxSize)

\* Download, lines 103-106: os.MkdirAll of the documents directory, which can
\* fail only while the directory does not exist.
Mkdir(c) ==
  /\ calls[c].pc = "mkdir"
  /\ UNCHANGED files
  /\ \E ok \in BOOLEAN :
       /\ docsDir => ok
       /\ docsDir' = (docsDir \/ ok)
       /\ IF ok THEN Goes(c, [calls[c] EXCEPT !.pc = "writeDoc", !.mkdir = "ok"])
          ELSE Returns(c, [calls[c] EXCEPT !.mkdir = "fail"], NoPath, Err("MkdirAll"))

\* Download, lines 108-111: os.WriteFile of the content.
WriteDoc(c) ==
  /\ calls[c].pc = "writeDoc"
  /\ UNCHANGED docsDir
  /\ \E outcome \in WriteOutcomes, part \in PartialBytes(calls[c].content) :
       LET call == [calls[c] EXCEPT !.docWrite = IF outcome = "ok" THEN "ok" ELSE "fail"]
           docPath == GetCachedDocumentPath(CacheDir, call.url)
       IN /\ files' = WriteFile(files, docPath, Bytes(call.content), Bytes(part), outcome)
          /\ IF DocWriteFatal(outcome) THEN Returns(c, call, NoPath, Err("WriteFile"))
             ELSE Goes(c, [call EXCEPT !.pc = "writeMeta"])

\* Download, lines 113-119: SaveMetadata, then return the content path.
WriteMeta(c) ==
  /\ calls[c].pc = "writeMeta"
  /\ UNCHANGED docsDir
  /\ \E outcome \in WriteOutcomes :
       LET call == [calls[c] EXCEPT !.metaWrite = IF outcome = "ok" THEN "ok" ELSE "fail"]
           docPath == GetCachedDocumentPath(CacheDir, call.url)
           metaPath == GetCachedMetadataPath(CacheDir, call.url)
           res == AfterSaveMetadata(outcome, docPath)
       IN /\ files' = SaveMetadata(files, metaPath, call.meta, outcome)
          /\ Returns(c, call, res.ret, res.err)

\* Download is called with one locator that validates and with every kind
\* that does not.
Next ==
  \E c \in Callers :
    \/ \E urlStr \in Locators \ {Url.b}, force \in BOOLEAN : Begin(c, urlStr, force)
    \/ Validate(c)
    \/ CheckFreshness(c)
    \/ FetchOf(c, GetOutcomes(calls[c].url))
    \/ Mkdir(c)
    \/ WriteDoc(c)
    \/ WriteMeta(c)

Spec == Init /\ [][Next]_vars

\* ------------------------------------------------- one server, forced calls

\* Download with ForceRefresh against a server whose answer to a GET is fixed
\* for the run.
InitServer ==
  /\ files = [p \in Paths |-> Absent]
  /\ docsDir = FALSE
  /\ calls = [c \in Callers |-> NewCall(EmptyStr, FALSE)]
  /\ returned = [u \in Locators |-> {}]
  /\ cancelled = FALSE
  /\ served \in ServerResponses
  /\ walk = NoWalk
  /\ batch = NoBatch
  /\ trip = NoTrip
  /\ boot = NoBoot

NextServer ==
  \E c \in Callers :
    \/ Begin(c, Url.a, TRUE)
    \/ FetchOf(c, {served})
    \/ Mkdir(c)
    \/ WriteDoc(c)
    \/ WriteMeta(c)

SpecServer == InitServer /\ [][NextServer]_vars

TypeOK ==
  /\ \A p \in Paths : files[p].kind \in {"absent", "bytes", "json", "truncated"}
  /\ docsDir \in BOOLEAN

\* ------------------------------------------------------- concurrent calls

\* Two goroutines call Download on one downloader, once each, on an empty
\* cache root.  Nothing in Download serialises them, so the system calls of
\* os.WriteFile (open with O_TRUNC, one write at offset 0, close) are steps of
\* their own that interleave.
Racers == {1, 2}

\* What the server may answer to a GET: a failure, a 200 with a Content-Type
\* that is not text, or a 200 with a body of n bytes of value n, with or
\* without an ETag.
RaceOutcomes ==
  {TransportFailure, Response(200, Ct.octet, -1, <<1>>, "", "")}
    \cup {Response(200, Ct.html, -1, Fill(n, n), etag, "") :
            n \in 1..MaxSize, etag \in {"", "e1"}}

InitRace ==
  /\ files = [p \in Paths |-> Absent]
  /\ docsDir = FALSE
  /\ calls = [c \in Racers |-> NewCall(EmptyStr, FALSE)]
  /\ returned = [u \in Locators |-> {}]
  /\ cancelled = FALSE
  /\ served = NoServed
  /\ walk = NoWalk
  /\ batch = NoBatch
  /\ trip = NoTrip
  /\ boot = NoBoot

FetchRace(c) == FetchOf(c, RaceOutcomes)

\* A write of data at offset 0 of a file that holds old.
Overwrite_Replace(old, data) == data

Overwrite(old, data) == data \o SubSeq(old, Len(data) + 1, Len(old))

\* os.WriteFile of the content, line 109: OpenFile creates or truncates the
\* file, or fails and leaves it alone.
OpenDocFile(c) ==
  /\ calls[c].pc = "writeDoc"
  /\ UNCHANGED docsDir
  /\ \E ok \in BOOLEAN :
       IF ok
       THEN /\ files' = [files EXCEPT
                           ![GetCachedDocumentPath(CacheDir, calls[c].url)] = Bytes(<<>>)]
            /\ Goes(c, [calls[c] EXCEPT !.pc = "docData"])
       ELSE /\ files' = files
            /\ Returns(c, [calls[c] EXCEPT !.docWrite = "fail"], NoPath, Err("WriteFile"))

\* os.WriteFile of the content: f.Write, whole or cut short, then Close.
WriteDocData(c) ==
  /\ calls[c].pc = "docData"
  /\ UNCHANGED docsDir
  /\ \E outcome \in {"ok", "partial"}, part \in PartialBytes(calls[c].content) :
       LET call == [calls[c] EXCEPT !.docWrite = IF outcome = "ok" THEN "ok" ELSE "fail"]
           docPath == GetCachedDocumentPath(CacheDir, call.url)
           data == IF outcome = "ok" THEN call.content ELSE part
       IN /\ files' = [files EXCEPT ![docPath] = Bytes(Overwrite(files[docPath].data, data))]
          /\ IF DocWriteFatal(outcome) THEN Returns(c, call, NoPath, Err("WriteFile"))
             ELSE Goes(c, [call EXCEPT !.pc = "writeMeta"])

\* SaveMetadata, line 125: OpenFile creates or truncates the metadata file, or
\* fails; Download logs the failure and returns the content path.
OpenMetaFile(c) ==
  /\ calls[c].pc = "writeMeta"
  /\ UNCHANGED docsDir
  /\ \E ok \in BOOLEAN :
       LET docPath == GetCachedDocumentPath(CacheDir, calls[c].url)
           metaPath == GetCachedMetadataPath(CacheDir, calls[c].url)
           res == AfterSaveMetadata("open", docPath)
       IN IF ok
          THEN /\ files' = [files EXCEPT ![metaPath] = Truncated]
               /\ Goes(c, [calls[c] EXCEPT !.pc = "metaData"])
          ELSE /\ files' = files
               /\ Returns(c, [calls[c] EXCEPT !.metaWrite = "fail"], res.ret, res.err)

\* SaveMetadata: f.Write of the JSON text, whole or cut short, then Close;
\* Download returns the content path.  Written over JSON text another call
\* wrote since the file was truncated, the text replaces it when it is at
\* least as long and leaves its tail behind (no JSON any more) when it is
\* shorter; the lengths depend on the timestamps, so either may happen.
WriteMetaData(c) ==
  /\ calls[c].pc = "metaData"
  /\ UNCHANGED docsDir
  /\ \E outcome \in {"ok", "partial"}, shorter \in BOOLEAN :
       LET call == [calls[c] EXCEPT !.metaWrite = IF outcome = "ok" THEN "ok" ELSE "fail"]
           docPath == GetCachedDocumentPath(CacheDir, call.url)
           metaPath == GetCachedMetadataPath(CacheDir, call.url)
           res == AfterSaveMetadata(outcome, docPath)
       IN /\ shorter => files[metaPath].kind = "json"
          /\ files' = [files EXCEPT ![metaPath] =
                         IF shorter \/ outcome = "partial" THEN Truncated
                         ELSE Json(MarshalMeta(call.meta))]
          /\ Returns(c, call, res.ret, res.err)

NextRace ==
  \E c \in Racers :
    \/ \E urlStr \in {Url.a, Url.b} : calls[c].pc = "idle" /\ Begin(c, urlStr, FALSE)
    \/ Validate(c)
    \/ CheckFreshness(c)
    \/ FetchRace(c)
    \/ Mkdir(c)
    \/ OpenDocFile(c)
    \/ WriteDocData(c)
    \/ OpenMetaFile(c)
    \/ WriteMetaData(c)

SpecRace == InitRace /\ [][NextRace]_vars

\* ------------------------------------------------------------ cancellation

\* Download with a context the caller may cancel at any moment.  The GET is
\* made with the context (FetchOf); the conditional HEAD is made with
\* http.NewRequest, line 243, without it (ValidateCache is not even given the
\* context), so its outcomes are those of CheckFreshness whatever the signal.
Cancel ==
  /\ ~cancelled
  /\ cancelled' = TRUE
  /\ UNCHANGED <<files, docsDir, calls, returned, served, walk, batch, trip, boot>>

NextCancel ==
  \/ Cancel
  \/ \E c \in Callers :
       \/ \E force \in BOOLEAN : Begin(c, Url.a, force)
       \/ Validate(c)
       \/ CheckFreshness(c)
       \/ FetchRace(c)
       \/ Mkdir(c)
       \/ WriteDoc(c)
       \/ WriteMeta(c)

SpecCancel == Init /\ [][NextCancel]_vars

\* -------------------------------------------------------------- local files

\* strings.Contains
Contains(s, sub) ==
  \E i \in 1..(Len(s) - Len(sub) + 1) : SubSeq(s, i, i + Len(sub) - 1) = sub

\* The elements of a path between its separators (empty ones included).
RECURSIVE Split(_)
Split(s) ==
  LET k == IndexOf(s, "/")
  IN IF k = 0 THEN <<s>> ELSE <<SubSeq(s, 1, k - 1)>> \o Split(SubSeq(s, k + 1, Len(s)))

RECURSIVE JoinElems(_)
JoinElems(elems) ==
  IF elems = <<>> THEN EmptyStr
  ELSE IF Len(elems) = 1 THEN elems[1]
  ELSE elems[1] \o <<"/">> \o JoinElems(Tail(elems))


\* filepath.Clean, the elements: empty and "." elements are dropped, ".."
\* removes the element before it, stays when there is none in a relative
\* path, and is dropped at the root.
RECURSIVE CleanElems(_, _, _)
CleanElems(elems, kept, rooted) ==
  IF elems = <<>> THEN kept
  ELSE LET e == Head(elems)
           rest == Tail(elems)
       IN IF e = EmptyStr \/ e = <<".">> THEN CleanElems(rest, kept, rooted)
          ELSE IF e = <<".", ".">>
          THEN IF kept # <<>> /\ kept[Len(kept)] # <<".", ".">>
               THEN CleanElems(rest, SubSeq(kept, 1, Len(kept) - 1), rooted)
               ELSE IF rooted THEN CleanElems(rest, kept, rooted)
               ELSE CleanElems(rest, Append(kept, e), rooted)
          ELSE CleanElems(rest, Append(kept, e), rooted)

\* filepath.Clean
Clean(path) ==
  LET rooted == HasPrefix(path, <<"/">>)
      out == JoinElems(CleanElems(Split(path), <<>>, rooted))
  IN IF rooted THEN <<"/">> \o out
     ELSE IF out = EmptyStr THEN <<".">> ELSE out

\* filepath.Join(dir, name) of a clean directory and a name.
Join(dir, name) == IF dir = <<"/">> THEN dir \o name ELSE dir \o <<"/">> \o name

\* The working directory of the process.
Cwd == <<"/", "w">>

\* filepath.Abs: a rooted path is cleaned, another one is joined to the
\* working directory (Getwd does not fail here).
Abs_Identity(path) == path

Abs(path) == IF HasPrefix(path, <<"/">>) THEN Clean(path) ELSE Clean(Cwd \o <<"/">> \o path)

\* The last element of a path: os.FileInfo.Name().
BaseName(path) == LET elems == Split(path) IN elems[Len(elems)]

\* filepath.Ext: from the last '.' of the last element on, empty without one.
Ext(path) ==
  LET name == BaseName(path)
  IN IF \E i \in 1..Len(name) : name[i] = "."
     THEN LET k == CHOOSE i \in 1..Len(name) :
                     name[i] = "." /\ \A j \in (i + 1)..Len(name) : name[j] # "."
          IN SubSeq(name, k, Len(name))
     ELSE EmptyStr

textExtensions ==
  { <<".", "t", "x", "t">>,
    <<".", "m", "d">>,
    <<".", "m", "a", "r", "k", "d", "o", "w", "n">>,
    <<".", "j", "s", "o", "n">>,
    <<".", "y", "a", "m", "l">>,
    <<".", "y", "m", "l">>,
    <<".", "x", "m", "l">>,
    <<".", "h", "t", "m", "l">>,
    <<".", "h", "t", "m">>,
    <<".", "c", "s", "v">>,
    <<".", "t", "s", "v">>,
    <<".", "l", "o", "g">>,
    <<".", "r", "s", "t">>,
    <<".", "a", "d", "o", "c">>,
    <<".", "a", "s", "c", "i", "i", "d", "o", "c">>,
    <<".", "t", "e", "x">>,
    <<".", "l", "a", "t", "e", "x">>,
    <<".", "o", "r", "g">>,
    <<".", "c", "o", "n", "f">>,
    <<".", "c", "o", "n", "f", "i", "g">>,
    <<".", "c", "f", "g">>,
    <<".", "i", "n", "i">>,
    <<".", "t", "o", "m", "l">>,
    <<".", "s", "h">>,
    <<".", "b", "a", "s", "h">>,
    <<".", "z", "s", "h">>,
    <<".", "p", "y">>,
    <<".", "j", "s">>,
    <<".", "t", "s">>,
    <<".", "g", "o">>,
    <<".", "j", "a", "v", "a">>,
    <<".", "c">>,
    <<".", "c", "p", "p">>,
    <<".", "h">>,
    <<".", "h", "p", "p">>,
    <<".", "r", "b">>,
    <<".", "p", "h", "p">>,
    <<".", "p", "l">>,
    <<".", "l", "u", "a">>,
    <<".", "r">>,
    <<".", "c", "s", "s">>,
    <<".", "s", "c", "s", "s">>,
    <<".", "s", "a", "s", "s">>,
    <<".", "l", "e", "s", "s">>,
    <<".", "s", "q", "l">> }

\* IsTextFile: the lower-cased extension is on the list.
IsTextFile_AnyExtension(path) == TRUE

IsTextFile(path) == ToLower(Ext(path)) \in textExtensions

\* ValidatePath (cache.go): ".." anywhere in the raw or in the cleaned path.
ValidatePath_ElementsOnly(path) == \A i \in 1..Len(Split(path)) : Split(path)[i] # <<".", ".">>

ValidatePath_CleanedOnly(path) == ~Contains(Clean(path), <<".", ".">>)

ValidatePath(path) == ~Contains(path, <<".", ".">>) /\ ~Contains(Clean(path), <<".", ".">>)

\* The files below the working directory.  A directory lists its names in
\* lexical order, as filepath.Walk reads them; "noent" is a name whose lstat
\* fails (removed since it was listed, or not permitted); a directory that is
\* not readable cannot be listed.
File == [kind |-> "file", names |-> <<>>, readable |-> TRUE]
Dir(names) == [kind |-> "dir", names |-> names, readable |-> TRUE]
NoEnt == [kind |-> "noent", names |-> <<>>, readable |-> FALSE]

Name ==
  [d |-> <<"d">>,
   g |-> <<".", "g">>,
   hidden |-> <<".", "h", ".", "m", "d">>,
   upper |-> <<"a", ".", "M", "D">>,
   bin |-> <<"b", ".", "b", "i", "n">>,
   noExt |-> <<"c">>,
   gone |-> <<"e", ".", "t", "x", "t">>,
   s |-> <<"s">>,
   go |-> <<"k", ".", "g", "o">>,
   u |-> <<"u">>,
   x |-> <<"x", ".", "m", "d">>,
   m |-> <<"m", ".", "m", "d">>,
   n |-> <<"n", ".", "b", "i", "n">>,
   v |-> <<"v", ".", ".", "w">>,
   y |-> <<"y", ".", "t", "x", "t">>,
   q |-> <<"q">>]

DirAt ==
  [d |-> Join(Cwd, Name.d),
   g |-> Join(Join(Cwd, Name.d), Name.g),
   s |-> Join(Join(Cwd, Name.d), Name.s),
   v |-> Join(Cwd, Name.v)]

Disk ==
  (Cwd :> Dir(<<Name.d, Name.m, Name.n, Name.v>>))
    @@ (DirAt.d :> Dir(<<Name.g, Name.hidden, Name.upper, Name.bin, Name.noExt, Name.gone, Name.s>>))
    @@ (DirAt.g :> Dir(<<Name.x>>))
    @@ (Join(DirAt.g, Name.x) :> File)
    @@ (Join(DirAt.d, Name.hidden) :> File)
    @@ (Join(DirAt.d, Name.upper) :> File)
    @@ (Join(DirAt.d, Name.bin) :> File)
    @@ (Join(DirAt.d, Name.noExt) :> File)
    @@ (Join(DirAt.d, Name.gone) :> NoEnt)
    @@ (DirAt.s :> Dir(<<Name.go, Name.u>>))
    @@ (Join(DirAt.s, Name.go) :> File)
    @@ (Join(DirAt.s, Name.u) :> [Dir(<<>>) EXCEPT !.readable = FALSE])
    @@ (Join(Cwd, Name.m) :> File)
    @@ (Join(Cwd, Name.n) :> File)
    @@ (DirAt.v :> Dir(<<Name.y>>))
    @@ (Join(DirAt.v, Name.y) :> File)

\* os.Stat and os.Lstat (no symbolic links here): the node, NoEnt when there
\* is none.
Stat(path) == IF path \in DOMAIN Disk THEN Disk[path] ELSE NoEnt

\* ------------------------------------------------------------- scanner.go

\* ScanDirectory, lines 27-49: validate, resolve, stat; then filepath.Walk
\* starts at the root.  todo holds the paths Walk has still to visit, in
\* order; visited those walkFunc was called with; files the paths collected.
ScanStart(dirPath, recursive) ==
  LET begun == [NoWalk EXCEPT !.dirPath = dirPath, !.recursive = recursive]
      absPath == Abs(dirPath)
      failed(kind) == [begun EXCEPT !.pc = "done", !.err = Err(kind)]
  IN IF ~ValidatePath(dirPath) THEN failed("ErrPathTraversal")
     ELSE IF Stat(absPath).kind = "noent" THEN failed("Stat")
     ELSE IF Stat(absPath).kind # "dir" THEN failed("ErrInvalidPath")
     ELSE [begun EXCEPT !.pc = "walking", !.absPath = absPath, !.todo = <<absPath>>]

\* What filepath.Walk hands to walkFunc as err: the lstat of the name failed,
\* or the directory could not be listed.
AccessError(node) == node.kind = "noent" \/ (node.kind = "dir" /\ ~node.readable)

\* walkFunc, lines 52-85: "ctx" stands for ctx.Err(), "add" for nil after the
\* path was appended to files.
walkFunc_ErrorFirst(done, path, node, absPath, recursive) ==
  IF AccessError(node) THEN "nil"
  ELSE IF done THEN "ctx"
  ELSE IF node.kind = "dir"
  THEN IF path # absPath /\ ~recursive THEN "SkipDir" ELSE "nil"
  ELSE IF HasPrefix(BaseName(path), <<".">>) THEN "nil"
  ELSE IF IsTextFile(path) THEN "add" ELSE "nil"

walkFunc_NoExtensionFilter(done, path, node, absPath, recursive) ==
  IF done THEN "ctx"
  ELSE IF AccessError(node) THEN "nil"
  ELSE IF node.kind = "dir"
  THEN IF path # absPath /\ ~recursive THEN "SkipDir" ELSE "nil"
  ELSE IF HasPrefix(BaseName(path), <<".">>) THEN "nil"
  ELSE "add"

walkFunc_AlwaysEnters(done, path, node, absPath, recursive) ==
  IF done THEN "ctx"
  ELSE IF AccessError(node) THEN "nil"
  ELSE IF node.kind = "dir" THEN "nil"
  ELSE IF HasPrefix(BaseName(path), <<".">>) THEN "nil"
  ELSE IF IsTextFile(path) THEN "add" ELSE "nil"

walkFunc_EntryErrorFatal(done, path, node, absPath, recursive) ==
  IF done \/ AccessError(node) THEN "ctx"
  ELSE IF node.kind = "dir"
  THEN IF path # absPath /\ ~recursive THEN "SkipDir" ELSE "nil"
  ELSE IF HasPrefix(BaseName(path), <<".">>) THEN "nil"
  ELSE IF IsTextFile(path) THEN "add" ELSE "nil"

walkFunc_KeepsHidden(done, path, node, absPath, recursive) ==
  IF done THEN "ctx"
  ELSE IF AccessError(node) THEN "nil"
  ELSE IF node.kind = "dir"
  THEN IF path # absPath /\ ~recursive THEN "SkipDir" ELSE "nil"
  ELSE IF IsTextFile(path) THEN "add" ELSE "nil"

walkFunc(done, path, node, absPath, recursive) ==
  IF done THEN "ctx"
  ELSE IF AccessError(node) THEN "nil"
  ELSE IF node.kind = "dir"
  THEN IF path # absPath /\ ~recursive THEN "SkipDir" ELSE "nil"
  ELSE IF HasPrefix(BaseName(path), <<".">>) THEN "nil"
  ELSE IF IsTextFile(path) THEN "add" ELSE "nil"

\* The paths of the names of a directory, in their order.
Children(path, node) == [i \in 1..Len(node.names) |-> Join(path, node.names[i])]

\* ScanDirectory, lines 87-89: an error of the walk discards the paths.
ScanFailed_KeepsFiles(w) ==
  [w EXCEPT !.pc = "done", !.ret = w.files, !.err = Err("Walk")]

ScanFailed(w) == [w EXCEPT !.pc = "done", !.ret = <<>>, !.err = Err("Walk")]

\* One step of filepath.Walk: the next path, walkFunc on it, and what Walk
\* does with the answer (a listed directory is entered unless walkFunc said
\* SkipDir; an error other than SkipDir ends the walk).
WalkVisit(w, done) ==
  LET path == Head(w.todo)
      node == Stat(path)
      answer == walkFunc(done, path, node, w.absPath, w.recursive)
      seen == [w EXCEPT !.visited = Append(@, path)]
  IN CASE answer = "ctx" -> ScanFailed(seen)
       [] answer = "add" -> [seen EXCEPT !.files = Append(@, path), !.todo = Tail(@)]
       [] answer = "SkipDir" -> [seen EXCEPT !.todo = Tail(@)]
       [] answer = "nil" ->
            IF node.kind = "dir" /\ ~AccessError(node)
            THEN [seen EXCEPT !.todo = Children(path, node) \o Tail(@)]
            ELSE [seen EXCEPT !.todo = Tail(@)]

\* The directory paths ScanDirectory is called with.
ScanRoots ==
  {Cwd, DirAt.d, DirAt.s, DirAt.g, DirAt.v, Name.d, Name.d \o <<"/">>, <<".", "/">> \o Name.d,
   <<".", ".", "/">> \o Name.d, Join(Cwd, Name.m), Join(Cwd, Name.q), Join(DirAt.s, Name.u)}

ScanBegin(dirPath, recursive) ==
  /\ walk.pc \in {"idle", "done"}
  /\ walk' = ScanStart(dirPath, recursive)
  /\ UNCHANGED <<files, docsDir, calls, returned, cancelled, served, batch, trip, boot>>

ScanStep ==
  /\ walk.pc = "walking" /\ walk.todo # <<>>
  /\ walk' = WalkVisit(walk, cancelled)
  /\ UNCHANGED <<files, docsDir, calls, returned, cancelled, served, batch, trip, boot>>

\* ScanDirectory, lines 91-92: the walk is over, the paths are returned.
ScanReturn ==
  /\ walk.pc = "walking" /\ walk.todo = <<>>
  /\ walk' = [walk EXCEPT !.pc = "done", !.ret = walk.files]
  /\ UNCHANGED <<files, docsDir, calls, returned, cancelled, served, batch, trip, boot>>

NextScan ==
  \/ \E dirPath \in ScanRoots, recursive \in BOOLEAN : ScanBegin(dirPath, recursive)
  \/ ScanStep
  \/ ScanReturn
  \/ Cancel

SpecScan == Init /\ [][NextScan]_vars

\* ------------------------------------------------------------ agent/rag.go

\* processDocuments, line 87: what is taken for a URL.

IsURL(doc) ==
  \/ HasPrefix(doc, <<"h", "t", "t", "p", ":", "/", "/">>)
  \/ HasPrefix(doc, <<"h", "t", "t", "p", "s", ":", "/", "/">>)

\* The errors of processDocuments: fmt.Errorf of lines 92, 106 and 114, with
\* the name the message quotes and the error it wraps.
BatchErr(kind, name, cause) == [kind |-> kind, names |-> name, cause |-> cause]

\* processDocuments, lines 94, 116, 121: the paths of a locator are appended;
\* parts keeps what each locator contributed.
BatchAppend_Prepend(b, paths) ==
  [b EXCEPT !.processedDocs = paths \o @, !.parts = Append(@, paths), !.i = @ + 1]

BatchAppend(b, paths) ==
  [b EXCEPT !.processedDocs = @ \o paths, !.parts = Append(@, paths), !.i = @ + 1]

\* processDocuments, lines 92, 100, 106, 114: return nil and the error.
BatchFailed_Partial(b, err) ==
  [b EXCEPT !.pc = "done", !.ret = b.processedDocs, !.err = err]

BatchFailed(b, err) == [b EXCEPT !.pc = "done", !.ret = <<>>, !.err = err]

\* The locators of a document list: a URL, a URL without host, an absolute
\* and a relative file, a directory, a directory whose name holds "..", and a
\* relative path to nothing.
BatchLocators ==
  {Url.a, Url.noHost, Join(Cwd, Name.m), Name.n, DirAt.d, DirAt.v, Name.q,
   Name.d \o <<"/", ".", ".", "/">> \o Name.m,
   <<".", ".", "/", "w", "/">> \o Name.d}

RECURSIVE SeqsUpTo(_, _)
SeqsUpTo(S, n) ==
  IF n = 0 THEN {<<>>}
  ELSE LET shorter == SeqsUpTo(S, n - 1)
       IN shorter \cup {Append(q, x) : q \in shorter, x \in S}

\* processDocuments is called (once in a run) by the one caller.
BatchBegin(docs) ==
  /\ batch.pc = "idle"
  /\ batch' = [NoBatch EXCEPT !.pc = "run", !.docs = docs]
  /\ UNCHANGED <<files, docsDir, calls, returned, cancelled, served, walk, trip, boot>>

\* Lines 87-90: the locator is a URL, downloader.Download is called with it
\* (ProcessRAGSources configures no ForceRefresh).
BatchDownload ==
  /\ batch.pc = "run" /\ batch.i <= Len(batch.docs)
  /\ IsURL(batch.docs[batch.i])
  /\ calls[1].pc = "idle"
  /\ Begin(1, batch.docs[batch.i], FALSE)

\* Lines 90-95: Download has returned.
BatchDownloaded ==
  /\ batch.pc = "run" /\ calls[1].pc = "done"
  /\ batch' = IF calls[1].err # NoErr
              THEN BatchFailed(batch, BatchErr("download", batch.docs[batch.i], calls[1].err))
              ELSE BatchAppend(batch, <<calls[1].ret>>)
  /\ calls' = [calls EXCEPT ![1] = NewCall(EmptyStr, FALSE)]
  /\ UNCHANGED <<files, docsDir, returned, cancelled, served, walk, trip, boot>>

\* Lines 97-122: a local path is resolved and stat'ed; a directory goes to
\* scanner.ScanDirectory(ctx, absPath, true), a file is added as it is.
BatchLocal ==
  /\ batch.pc = "run" /\ batch.i <= Len(batch.docs)
  /\ ~IsURL(batch.docs[batch.i])
  /\ walk.pc = "idle"
  /\ LET absPath == Abs(batch.docs[batch.i])
         info == Stat(absPath)
     IN IF info.kind = "noent"
        THEN /\ batch' = BatchFailed(batch, BatchErr("access", absPath, Err("Stat")))
             /\ walk' = walk
        ELSE IF info.kind = "dir"
        THEN /\ walk' = ScanStart(absPath, TRUE)
             /\ batch' = batch
        ELSE /\ batch' = BatchAppend(batch, <<absPath>>)
             /\ walk' = walk
  /\ UNCHANGED <<files, docsDir, calls, returned, cancelled, served, trip, boot>>

\* Lines 112-117: ScanDirectory has returned.
BatchScanned ==
  /\ batch.pc = "run" /\ walk.pc = "done"
  /\ batch' = IF walk.err # NoErr
              THEN BatchFailed(batch, BatchErr("scan", walk.dirPath, walk.err))
              ELSE BatchAppend(batch, walk.ret)
  /\ walk' = NoWalk
  /\ UNCHANGED <<files, docsDir, calls, returned, cancelled, served, trip, boot>>

\* Line 126: every locator was processed.
BatchReturn ==
  /\ batch.pc = "run" /\ batch.i > Len(batch.docs)
  /\ batch' = [batch EXCEPT !.pc = "done", !.ret = batch.processedDocs]
  /\ UNCHANGED <<files, docsDir, calls, returned, cancelled, served, walk, trip, boot>>

\* An empty cache root, nothing cancelled.
InitBatch ==
  /\ files = [p \in Paths |-> Absent]
  /\ docsDir = FALSE
  /\ calls = [c \in Callers |-> NewCall(EmptyStr, FALSE)]
  /\ returned = [u \in Locators |-> {}]
  /\ cancelled = FALSE
  /\ served = NoServed
  /\ walk = NoWalk
  /\ batch = NoBatch
  /\ trip = NoTrip
  /\ boot = NoBoot

NextBatch ==
  \/ \E docs \in SeqsUpTo(BatchLocators, MaxDocs) : BatchBegin(docs)
  \/ BatchDownload
  \/ Validate(1)
  \/ CheckFreshness(1)
  \/ FetchRace(1)
  \/ Mkdir(1)
  \/ WriteDoc(1)
  \/ WriteMeta(1)
  \/ BatchDownloaded
  \/ BatchLocal
  \/ ScanStep
  \/ ScanReturn
  \/ BatchScanned
  \/ BatchReturn
  \/ Cancel

SpecBatch == InitBatch /\ [][NextBatch]_vars

\* ----------------------------------------------------------- path validation

\* One call of ScanDirectory(ctx, dirPath, false) is to be made, on any path:
\* every string of dots, separators and a letter up to the bound.
InitPaths ==
  /\ files = [p \in Paths |-> Absent]
  /\ docsDir = FALSE
  /\ calls = [c \in Callers |-> NewCall(EmptyStr, FALSE)]
  /\ returned = [u \in Locators |-> {}]
  /\ cancelled = FALSE
  /\ served = NoServed
  /\ walk \in {[NoWalk EXCEPT !.dirPath = dirPath] : dirPath \in SeqsUpTo({".", "/", "a"}, MaxPathLen)}
  /\ batch = NoBatch
  /\ trip = NoTrip
  /\ boot = NoBoot

\* ScanDirectory, lines 27-49: ValidatePath is the first thing done.
ScanCall ==
  /\ walk.pc = "idle"
  /\ walk' = ScanStart(walk.dirPath, FALSE)
  /\ UNCHANGED <<files, docsDir, calls, returned, cancelled, served, batch, trip, boot>>

NextPaths ==
  \/ ScanCall
  \/ ScanStep
  \/ ScanReturn

SpecPaths == InitPaths /\ [][NextPaths]_vars

\* ------------------------------------------------------- metadata round trip

\* SaveMetadata(path, entry) is to be called on an empty cache root whose
\* documents directory is there or not, with any of these CacheMetadata
\* values: each field empty or not, a string field with a byte that is not
\* valid UTF-8, a time whose year has five digits.
InitMeta ==
  /\ files = [p \in Paths |-> Absent]
  /\ docsDir \in BOOLEAN
  /\ calls = [c \in Callers |-> NewCall(EmptyStr, FALSE)]
  /\ returned = [u \in Locators |-> {}]
  /\ cancelled = FALSE
  /\ served = NoServed
  /\ walk = NoWalk
  /\ batch = NoBatch
  /\ trip \in {[NoTrip EXCEPT !.path = GetCachedMetadataPath(CacheDir, Url.a), !.entry = e] :
                e \in [URL : {EmptyStr, Url.a},
                       DownloadedAt : {ZeroTime, Now, [year |-> 10000, at |-> 2]},
                       ContentHash : {ComputeContentHash(<<>>), ComputeContentHash(<<1>>)},
                       ETag : {"", "e1", "0xFF"},
                       LastModified : {"", "m1"},
                       ContentType : {EmptyStr, Ct.html, <<"0xFF">>},
                       Size : {0, 1}]}
  /\ boot = NoBoot

\* SaveMetadata, lines 113-130: MkdirAll of the parent directory, marshal,
\* WriteFile.
TripSave ==
  /\ trip.pc = "idle"
  /\ \E mk \in (IF docsDir THEN {"ok"} ELSE {"ok", "fail"}), outcome \in WriteOutcomes :
       IF mk = "fail"
       THEN /\ trip' = [trip EXCEPT !.pc = "saved", !.mkdir = mk, !.err = Err("MkdirAll")]
            /\ UNCHANGED <<files, docsDir>>
       ELSE /\ docsDir' = TRUE
            /\ files' = SaveMetadata(files, trip.path, trip.entry, outcome)
            /\ trip' = [trip EXCEPT
                          !.pc = "saved", !.mkdir = mk,
                          !.write = IF CanMarshal(trip.entry) THEN outcome ELSE "none",
                          !.err = IF ~CanMarshal(trip.entry) THEN Err("Marshal")
                                  ELSE IF outcome # "ok" THEN Err("WriteFile")
                                  ELSE NoErr]
  /\ UNCHANGED <<calls, returned, cancelled, served, walk, batch, boot>>

\* LoadMetadata, lines 98-110, on the same path.
TripLoad ==
  /\ trip.pc = "saved"
  /\ trip' = [trip EXCEPT !.pc = "loaded", !.loaded = LoadMetadata(files[trip.path])]
  /\ UNCHANGED <<files, docsDir, calls, returned, cancelled, served, walk, batch, boot>>

NextMeta ==
  \/ TripSave
  \/ TripLoad

SpecMeta == InitMeta /\ [][NextMeta]_vars

\* --------------------------------------------------------------- cache root

\* The value a variable has when it is set (os.Getenv gives the empty string
\* for one that is not): a different path for each, two of them not clean.
EnvValue ==
  [name \in EnvNames |->
     CASE name = CacheDirEnv -> <<"o", "/">>
       [] name = "DON_RAG_CACHE_DIR" -> <<"/", "n">>
       [] name = "LOCALAPPDATA" -> <<"/", "l">>
       [] name = "XDG_CACHE_HOME" -> <<"/", "x", "/">>
       [] name = "HOME" -> <<"/", "h">>]

\* filepath.Join: the elements joined by separators, cleaned.
FilepathJoin(elems) == Clean(JoinElems(elems))

\* GetCacheDir: [ok, dir].  os.UserHomeDir is $HOME on darwin and linux, an
\* error when it is empty.
GetCacheDir(env, goos) ==
  LET fail == [ok |-> FALSE, dir |-> EmptyStr]
      cacheSubDir == <<"d", "o", "n", "/", "r", "a", "g">>
  IN IF env[CacheDirEnv] # EmptyStr THEN [ok |-> TRUE, dir |-> env[CacheDirEnv]]
     ELSE CASE goos = "darwin" ->
                 IF env["HOME"] = EmptyStr THEN fail
                 ELSE [ok |-> TRUE,
                       dir |-> FilepathJoin(<<env["HOME"], <<"L", "i", "b", "r", "a", "r", "y">>, <<"C", "a", "c", "h", "e", "s">>, cacheSubDir>>)]
            [] goos = "windows" ->
                 IF env["LOCALAPPDATA"] = EmptyStr THEN fail
                 ELSE [ok |-> TRUE, dir |-> FilepathJoin(<<env["LOCALAPPDATA"], cacheSubDir>>)]
            [] OTHER ->
                 IF env["XDG_CACHE_HOME"] # EmptyStr
                 THEN [ok |-> TRUE, dir |-> FilepathJoin(<<env["XDG_CACHE_HOME"], cacheSubDir>>)]
                 ELSE IF env["HOME"] = EmptyStr THEN fail
                 ELSE [ok |-> TRUE,
                       dir |-> FilepathJoin(<<env["HOME"], <<".", "c", "a", "c", "h", "e">>, cacheSubDir>>)]

\* NewDownloader, lines 33-41: the cache directory of the configuration, or
\* GetCacheDir when it is empty.
NewDownloader_EnvFirst(configDir, env, goos) ==
  IF GetCacheDir(env, goos).ok THEN GetCacheDir(env, goos)
  ELSE [ok |-> configDir # EmptyStr, dir |-> configDir]

NewDownloader(configDir, env, goos) ==
  IF configDir # EmptyStr THEN [ok |-> TRUE, dir |-> configDir]
  ELSE GetCacheDir(env, goos)

\* A process is to build its downloader, under any environment, with a
\* DownloaderConfig.CacheDir that is empty, as ProcessRAGSources leaves it
\* (rag.go:26-30), or a path.
InitRoot ==
  /\ files = [p \in Paths |-> Absent]
  /\ docsDir = FALSE
  /\ calls = [c \in Callers |-> NewCall(EmptyStr, FALSE)]
  /\ returned = [u \in Locators |-> {}]
  /\ cancelled = FALSE
  /\ served = NoServed
  /\ walk = NoWalk
  /\ batch = NoBatch
  /\ trip = NoTrip
  /\ boot \in {[NoBoot EXCEPT !.configDir = configDir, !.env = env, !.goos = goos] :
                configDir \in {EmptyStr, <<"c", "/">>},
                env \in {[name \in EnvNames |->
                             IF name \in set THEN EnvValue[name] ELSE EmptyStr] :
                           set \in SUBSET EnvNames},
                goos \in {"darwin", "windows", "linux"}}

\* NewDownloader, lines 27-61: the configuration is validated, the directory
\* is resolved, EnsureCacheDir (MkdirAll) makes it or fails, and the HTTP
\* client gets config.Timeout.
BootDownloader ==
  /\ boot.pc = "idle"
  /\ LET res == NewDownloader(boot.configDir, boot.env, boot.goos)
     IN IF ~ValidateConfig(boot.config)
        THEN boot' = [boot EXCEPT !.pc = "done", !.err = Err("ErrInvalidConfig")]
        ELSE IF ~res.ok
        THEN boot' = [boot EXCEPT !.pc = "done", !.err = Err("GetCacheDir")]
        ELSE \E mk \in {"ok", "fail"} :
               boot' = [boot EXCEPT
                          !.pc = "done", !.mkdir = mk,
                          !.cacheDir = IF mk = "ok" THEN res.dir ELSE EmptyStr,
                          !.timeout = IF mk = "ok" THEN boot.config.Timeout ELSE 0,
                          !.err = IF mk = "ok" THEN NoErr ELSE Err("EnsureCacheDir")]
  /\ UNCHANGED <<files, docsDir, calls, returned, cancelled, served, walk, batch, trip>>

SpecRoot == InitRoot /\ [][BootDownloader]_vars

\* ---------------------------------------------------------- a changing remote

\* The resource behind Url.a in its version v (one byte, the version), served
\* by a host that sends no validator, an ETag or a Last-Modified header.
Version(v, validator) ==
  Response(200, Ct.html, -1, <<v>>,
           IF validator = "etag" THEN (IF v = 1 THEN "e1" ELSE "e2") ELSE "",
           IF validator = "lm" THEN (IF v = 1 THEN "m1" ELSE "m2") ELSE "")

Versions == {Version(v, validator) : v \in {1, 2}, validator \in {"none", "etag", "lm"}}

\* The status a server holding resp gives to a conditional HEAD: 304 when
\* If-None-Match names the current ETag or, without one, If-Modified-Since
\* the current Last-Modified; 200 otherwise.
HeadAnswer(resp, inm, ims) ==
  IF (inm # "" /\ inm = resp.etag) \/ (inm = "" /\ ims # "" /\ ims = resp.lm) THEN 304
  ELSE 200

InitStale ==
  /\ files = [p \in Paths |-> Absent]
  /\ docsDir = FALSE
  /\ calls = [c \in Callers |-> NewCall(EmptyStr, FALSE)]
  /\ returned = [u \in Locators |-> {}]
  /\ cancelled = FALSE
  /\ served \in Versions
  /\ walk = NoWalk
  /\ batch = NoBatch
  /\ trip = NoTrip
  /\ boot = NoBoot

\* Between two calls of Download the resource is replaced by another version.
Publish ==
  /\ \A c \in Callers : calls[c].pc \in {"idle", "done"}
  /\ \E next \in Versions : next.payload # served.payload /\ served' = next
  /\ calls' = [c \in Callers |-> NewCall(EmptyStr, FALSE)]
  /\ UNCHANGED <<files, docsDir, returned, cancelled, walk, batch, trip, boot>>

\* The conditional HEAD reaches the server or fails.
HeadServed(c) ==
  CheckFreshnessOf(c, {0, HeadAnswer(served, calls[c].inm, calls[c].ims)})

NextStale ==
  \/ Publish
  \/ \E c \in Callers :
       \/ Begin(c, Url.a, FALSE)
       \/ Validate(c)
       \/ HeadServed(c)
       \/ FetchOf(c, {served, TransportFailure})
       \/ Mkdir(c)
       \/ WriteDoc(c)
       \/ WriteMeta(c)

SpecStale == InitStale /\ [][NextStale]_vars

\* Download is one sequential function: once called it is run on to its
\* return, every request it makes being answered or failing, and every call
\* on the file system returning.  The calls themselves, and the changes of
\* the remote, come as the caller and the publisher please.
SpecLive ==
  /\ SpecStale
  /\ \A c \in Callers :
       /\ WF_vars(Validate(c))
       /\ WF_vars(HeadServed(c))
       /\ WF_vars(FetchOf(c, {served, TransportFailure}))
       /\ WF_vars(Mkdir(c))
       /\ WF_vars(WriteDoc(c))
       /\ WF_vars(WriteMeta(c))

\* -------------------------------------------------------------- error kinds

\* Two callers fetch, forced or not, a valid or an invalid locator, from a server
\* that may fail, answer 404 or 204, or answer 200 with a type that is not text, a
\* declared or an actual length over the limit, a body cut short, or a
\* document; the cache writes may fail.
KindOutcomes ==
  {TransportFailure,
   Response(404, Ct.html, -1, <<>>, "", ""),
   Response(204, Ct.html, -1, <<>>, "", ""),
   Response(200, Ct.octet, -1, <<1>>, "", ""),
   Response(200, Ct.html, MaxSize + 1, Fill(1, MaxSize + 1), "", ""),
   Response(200, Ct.html, -1, Fill(1, MaxSize + 1), "", ""),
   Response(200, Ct.html, MaxSize, <<1>>, "", ""),
   Response(200, Ct.html, -1, Fill(1, MaxSize), "e1", "")}

NextKinds ==
  \E c \in Racers :
    \/ \E urlStr \in {Url.a, Url.ftp}, force \in BOOLEAN : Begin(c, urlStr, force)
    \/ Validate(c)
    \/ CheckFreshness(c)
    \/ FetchOf(c, KindOutcomes)
    \/ Mkdir(c)
    \/ WriteDoc(c)
    \/ WriteMeta(c)

SpecKinds == InitRace /\ [][NextKinds]_vars

\* ------------------------------------------------------------ configuration

\* A process builds a downloader from a configuration (that of
\* ProcessRAGSources, DefaultConfig, or one with another MaxSize or Timeout,
\* valid or not) and fetches Url.a once, on an empty cache, from a server that
\* answers every GET after latency nanoseconds with 200, text/html and n
\* bytes, declared or not.
InitConfig ==
  /\ files = [p \in Paths |-> Absent]
  /\ docsDir = FALSE
  /\ calls = [c \in Callers |-> NewCall(EmptyStr, FALSE)]
  /\ returned = [u \in Locators |-> {}]
  /\ cancelled = FALSE
  /\ served \in
       {[f \in DOMAIN TransportFailure \cup {"latency"} |->
           IF f = "latency" THEN latency
           ELSE Response(200, Ct.html, cl, Fill(1, n), "", "")[f]] :
          latency \in {1, 31, Second, 30 * Second - 1, 30 * Second, 30 * Second + 1},
          n \in {0, 1, MaxSize, MaxSize + 1, MaxInt64},
          cl \in {-1, 0, 1, MaxSize, MaxSize + 1, MaxInt64}}
  /\ walk = NoWalk
  /\ batch = NoBatch
  /\ trip = NoTrip
  /\ boot \in {[NoBoot EXCEPT !.config = config, !.env = [@ EXCEPT !["HOME"] = EnvValue["HOME"]]] :
                config \in {AgentConfig, DefaultConfig}
                             \cup {[DefaultConfig EXCEPT !.MaxSize = m] : m \in {0, 1, MaxInt64}}
                             \cup {[DefaultConfig EXCEPT !.Timeout = 0]}}

\* downloadWithValidation, line 184: httpClient.Do under http.Client.Timeout.
\* An answer that takes less than the timeout arrives, one that takes longer
\* is a transport failure, and at the very instant either happens.
FetchTimed(c) ==
  /\ boot.pc = "done" /\ boot.err = NoErr
  /\ FetchUnder(c,
                (IF served.latency <= boot.timeout THEN {served} ELSE {})
                  \cup (IF served.latency >= boot.timeout THEN {TransportFailure} ELSE {}),
                boot.config.MaxSize)

NextConfig ==
  \/ BootDownloader
  \/ \E c \in Callers :
       \/ /\ boot.pc = "done" /\ boot.err = NoErr /\ calls[c].pc = "idle"
          /\ Begin(c, Url.a, FALSE)
       \/ FetchTimed(c)
       \/ Mkdir(c)
       \/ WriteDoc(c)
       \/ WriteMeta(c)

SpecConfig == InitConfig /\ [][NextConfig]_vars

\* ------------------------------------------------------------------- claims

DocPath(urlStr) == GetCachedDocumentPath(CacheDir, urlStr)
MetaPath(urlStr) == GetCachedMetadataPath(CacheDir, urlStr)

HasStoredValidators(k) ==
  k.stored.ok /\ (k.stored.ETag # "" \/ k.stored.LastModified # "")

NoWrites(k) == k.mkdir = "none" /\ k.docWrite = "none" /\ k.metaWrite = "none"

\* A finished, non-forced call that found the content file and stored validators.
Revalidated(k) == k.pc = "done" /\ ~k.force /\ k.exists /\ HasStoredValidators(k)

\* C1: a non-forced fetch of a cached locator with stored validators, whose
\* conditional request (if any is made) is answered 304, makes exactly one
\* network exchange, that conditional request carrying the stored validators,
\* makes no GET, and returns the one path every successful fetch of the locator
\* has returned.
C1_NotModifiedIsOneExchange ==
  \A c \in Callers :
    LET k == calls[c]
    IN (Revalidated(k) /\ (k.heads > 0 => k.head = 304)) =>
         /\ k.heads = 1 /\ k.head = 304 /\ k.gets = 0
         /\ k.inm = k.stored.ETag /\ k.ims = k.stored.LastModified
         /\ k.err = NoErr /\ k.ret = DocPath(k.url)
         /\ returned[k.url] = {k.ret}

C1_Witness ==
  \E c \in Callers :
    LET k == calls[c]
    IN Revalidated(k) /\ k.heads = 1 /\ k.head = 304 /\ k.gets = 0
       /\ k.inm = "e2" /\ k.ims = "m2" /\ k.ret = DocPath(Url.a)

\* C2: when the conditional request of such a fetch ends in a transport
\* failure, the fetch returns the cached content path with no error and makes
\* no GET.
C2_TransportFailureUsesCache ==
  \A c \in Callers :
    LET k == calls[c]
    IN (Revalidated(k) /\ (k.heads > 0 => k.head = 0)) =>
         /\ k.heads = 1 /\ k.gets = 0
         /\ k.err = NoErr /\ k.ret = k.cachedPath /\ k.ret = DocPath(k.url)
         /\ files[k.ret].kind = "bytes"

C2_Witness ==
  \E c \in Callers :
    LET k == calls[c]
    IN Revalidated(k) /\ k.heads = 1 /\ k.head = 0 /\ k.gets = 0
       /\ k.err = NoErr /\ k.ret = DocPath(Url.a)

\* The conditional request was answered by the server with a status other than 304.
AnsweredStale(k) == Revalidated(k) /\ k.heads = 1 /\ k.head \notin {0, 304}

\* The entry of the call's locator holds what the accepted response carried.
EntryIsResponse(k) ==
  /\ files[DocPath(k.url)] = Bytes(k.resp.body)
  /\ LET ld == LoadMetadata(files[MetaPath(k.url)])
     IN /\ ld.ok
        /\ ld.meta.ContentHash = ComputeContentHash(k.resp.body)
        /\ ld.meta.ETag = k.resp.etag
        /\ ld.meta.LastModified = k.resp.lm
        /\ ld.meta.ContentType = k.resp.ctype
        /\ ld.meta.Size = Len(k.resp.body)

C4_NoValidatorsNoNetwork ==
  \A c \in Callers :
    LET k == calls[c]
    IN (k.pc = "done" /\ ~k.force /\ k.exists /\ k.stored.ok
          /\ k.stored.ETag = "" /\ k.stored.LastModified = "") =>
         /\ k.heads = 0 /\ k.gets = 0
         /\ k.err = NoErr /\ k.ret = DocPath(k.url)

C4_Witness ==
  \E c \in Callers :
    LET k == calls[c]
    IN k.pc = "done" /\ ~k.force /\ k.exists /\ k.stored.ok
       /\ k.stored.ETag = "" /\ k.stored.LastModified = ""
       /\ k.heads = 0 /\ k.gets = 0 /\ k.ret = DocPath(Url.a)

\* C5: a fetch of a valid locator with force-refresh never looks at the cached
\* copy: it makes no conditional request, never returns without a GET, and
\* has made exactly one GET when it ends, whatever is cached.
C5_ForceAlwaysGets ==
  \A c \in Callers :
    LET k == calls[c]
    IN (k.pc # "idle" /\ k.force /\ k.url \in {Url.a, Url.b}) =>
         /\ k.heads = 0 /\ k.pc \notin {"validate", "head"}
         /\ k.gets = (IF k.pc = "fetch" THEN 0 ELSE 1)

C5_Witness ==
  \E c \in Callers :
    LET k == calls[c]
    IN k.pc = "done" /\ k.force /\ k.exists /\ HasStoredValidators(k)
       /\ k.heads = 0 /\ k.gets = 1 /\ k.err = NoErr

\* The locators of the model whose scheme is neither http nor https or whose
\* host is empty (Url.noScheme does not parse at all).
BadLocators == {Url.ftp, Url.noHost, Url.local, Url.noScheme}

\* C6: a fetch of a locator whose scheme is neither http nor https, or whose
\* host is empty, fails with an invalid-locator error, with no path, no
\* network request and no write, also when a content file exists under the
\* locator's key.
C6_InvalidLocatorFailsFirst ==
  \A c \in Callers :
    LET k == calls[c]
    IN (k.pc # "idle" /\ k.url \in BadLocators) =>
         /\ k.pc = "done" /\ k.err = Err("ErrInvalidURL") /\ k.ret = NoPath
         /\ k.heads = 0 /\ k.gets = 0 /\ NoWrites(k)
         /\ returned[k.url] = {}
         /\ files[MetaPath(k.url)] = Absent

C6_Witness ==
  \E c \in Callers :
    LET k == calls[c]
    IN k.pc = "done" /\ k.url = Url.ftp /\ files[DocPath(Url.ftp)].kind = "bytes"
       /\ k.err = Err("ErrInvalidURL") /\ k.ret = NoPath

\* The state part of C7: the call has ended with the status error and no path,
\* and has attempted no write.
C7_Failed ==
  \A c \in Callers :
    LET k == calls[c]
    IN (k.gets = 1 /\ k.get \notin {0, 200}) =>
         /\ k.pc = "done" /\ k.err = ErrHTTP(k.get) /\ k.ret = NoPath
         /\ NoWrites(k)
         /\ StoredAt(files, k.url) = k.stored

\* The step part of C7: the step in which the GET is answered with such a
\* status leaves every file as it was.
C7_Frame ==
  \A c \in Callers :
    (calls[c].pc = "fetch" /\ calls'[c].get \notin {0, 200}) =>
      files' = files /\ docsDir' = docsDir /\ returned' = returned

\* C7: a fetch whose GET is answered with a status other than 200 fails with
\* an error carrying that status, returns no path even when a cached copy
\* exists, and leaves the content and metadata files unchanged.
C7_Non200Fails == [](C7_Failed) /\ [][C7_Frame]_vars

C7_Witness ==
  \E c \in Callers :
    LET k == calls[c]
    IN k.pc = "done" /\ k.gets = 1 /\ k.get = 304 /\ k.exists /\ k.stored.ok
       /\ k.err = ErrHTTP(304) /\ k.ret = NoPath

\* C8: the metadata file is written only after the content file was written
\* successfully; when the metadata write fails the fetch still returns the
\* content path without error and the content file holds the downloaded bytes.
C8_MetadataAfterContent ==
  \A c \in Callers :
    LET k == calls[c]
    IN /\ (k.pc = "writeMeta" \/ k.metaWrite # "none") =>
            k.docWrite = "ok" /\ files[DocPath(k.url)] = Bytes(k.resp.body)
       /\ k.metaWrite = "fail" =>
            /\ k.pc = "done" /\ k.err = NoErr /\ k.ret = DocPath(k.url)
            /\ files[k.ret] = Bytes(k.resp.body)

C8_Witness ==
  \E c \in Callers :
    LET k == calls[c]
    IN k.pc = "done" /\ k.metaWrite = "fail" /\ k.err = NoErr
       /\ files[k.ret] = Bytes(k.resp.body) /\ Len(k.resp.body) = MaxSize
       /\ files[MetaPath(k.url)] = Truncated

\* C9: when the GET was accepted but the documents directory cannot be created
\* or the content file cannot be written, the fetch returns a file-system
\* error and no path, and does not write metadata.
C9_ContentWriteFailureIsFatal ==
  \A c \in Callers :
    LET k == calls[c]
    IN (k.mkdir = "fail" \/ k.docWrite = "fail") =>
         /\ k.pc = "done" /\ k.get = 200
         /\ k.err \in {Err("MkdirAll"), Err("WriteFile")} /\ k.ret = NoPath
         /\ k.metaWrite = "none"
         /\ StoredAt(files, k.url) = k.stored

C9_Witness ==
  \E c \in Callers :
    LET k == calls[c]
    IN k.pc = "done" /\ k.docWrite = "fail" /\ k.err = Err("WriteFile")
       /\ k.ret = NoPath /\ k.stored.ok /\ k.metaWrite = "none"

\* C10: after a fetch whose GET was accepted and whose two writes succeeded,
\* the content file at the returned path is the response body, and the
\* metadata holds the locator string, the response's ETag, Last-Modified and
\* Content-Type, the body length, and the hash of the bytes written.
C10_EntryDescribesResponse ==
  \A c \in Callers :
    LET k == calls[c]
    IN (k.pc = "done" /\ k.gets = 1 /\ k.docWrite = "ok" /\ k.metaWrite = "ok") =>
         /\ k.err = NoErr /\ k.ret = DocPath(k.url)
         /\ files[k.ret] = Bytes(k.resp.body)
         /\ LET ld == LoadMetadata(files[MetaPath(k.url)])
            IN /\ ld.ok
               /\ ld.meta.URL = k.url
               /\ ld.meta.ETag = k.resp.etag
               /\ ld.meta.LastModified = k.resp.lm
               /\ ld.meta.ContentType = k.resp.ctype
               /\ ld.meta.Size = Len(k.resp.body)
               /\ ld.meta.ContentHash = ComputeContentHash(files[k.ret].data)

C10_Witness ==
  \E c \in Callers :
    LET k == calls[c]
    IN k.pc = "done" /\ k.gets = 1 /\ k.docWrite = "ok" /\ k.metaWrite = "ok"
       /\ files[k.ret] = Bytes(<<1, 1>>) /\ k.resp.etag = "e1" /\ k.resp.ctype = Ct.html
       /\ LoadMetadata(files[MetaPath(k.url)]).meta.Size = 2

\* A finished call that ended by using the cache: not forced, the content file
\* found, no GET made, a path returned.
EndedByCache(k) ==
  k.pc = "done" /\ ~k.force /\ k.exists /\ k.gets = 0 /\ k.err = NoErr

\* The state part of C11: such a call ended for one of the three reasons (no
\* stored validators, a 304, a transport failure of the conditional request),
\* attempted no write, and returned the one path every successful fetch of
\* the locator has returned, the content path of its key.
C11_Ended ==
  \A c \in Callers :
    LET k == calls[c]
    IN EndedByCache(k) =>
         /\ \/ k.heads = 0 /\ k.stored.ok /\ ~HasStoredValidators(k)
            \/ k.heads = 1 /\ k.head \in {0, 304} /\ HasStoredValidators(k)
         /\ NoWrites(k)
         /\ k.ret = DocPath(k.url) /\ returned[k.url] = {k.ret}
         /\ files[k.ret].kind = "bytes"

\* The step part of C11: every step of a call that has made no GET leaves
\* every file of the cache root, of its key and of the others, as it was.
C11_Frame ==
  \A c \in Callers :
    (calls'[c].pc # "idle" /\ calls'[c].gets = 0) => files' = files /\ docsDir' = docsDir

\* C11: a fetch that ends by using the cache (no stored validators, a 304, or
\* a transport failure while revalidating) writes nothing, so that every file
\* of its key and of the other keys is unchanged, and returns the same path
\* as the fetch that created the entry.
C11_CacheUseWritesNothing == [](C11_Ended) /\ [][C11_Frame]_vars

C11_Witness ==
  \E c \in Callers :
    LET k == calls[c]
    IN EndedByCache(k) /\ k.heads = 1 /\ k.head = 304 /\ k.stored.ETag = "e1"
       /\ k.ret = DocPath(Url.a) /\ returned[Url.a] = {DocPath(Url.a)}
       /\ files[DocPath(Url.ftp)] = Bytes(<<1>>)
       /\ files[MetaPath(Url.a)].kind = "json"

\* The fixed answer is a 200 of an accepted content type and the call has made
\* its GET.
GotText(k) ==
  k.gets = 1 /\ served.kind = "resp" /\ served.status = 200
    /\ isTextContentType(served.ctype)

\* The call was refused for its size and has attempted no write.
RefusedTooLarge(k) ==
  k.pc = "done" /\ k.err = Err("ErrFileTooLarge") /\ k.ret = NoPath /\ NoWrites(k)
    /\ \A p \in Paths : files[p] = Absent

\* C12 as stated: an answer whose declared Content-Length exceeds the limit is
\* refused with no body byte read; an answer with an absent or understated
\* Content-Length whose body sent is longer than the limit is refused after at
\* most limit + 1 bytes were read; nothing is written in either case.
C12_Original ==
  \A c \in Callers :
    LET k == calls[c]
    IN GotText(k) =>
         /\ served.cl > MaxSize =>
              RefusedTooLarge(k) /\ BytesRead(served, MaxSize) = 0
         /\ (served.cl < Len(served.payload) /\ Len(served.payload) > MaxSize) =>
              RefusedTooLarge(k) /\ BytesRead(served, MaxSize) <= MaxSize + 1

\* The media type of a Content-Type header: what precedes the first ';',
\* trimmed, in lower case.
MediaTypeOf(contentType) ==
  LET k == IndexOf(contentType, ";")
  IN TrimSpace(ToLower(IF k = 0 THEN contentType ELSE SubSeq(contentType, 1, k - 1)))

\* The allow-list read as stated: text/ as a prefix, the others as whole names.
OnExactList(contentType) ==
  LET mt == MediaTypeOf(contentType)
  IN HasPrefix(mt, Mt.textBare) \/ mt \in {Mt.json, Mt.xml, Mt.javascript, Mt.xYaml, Mt.yaml}

\* C13 as stated: a 200 answer is accepted as text exactly when its media
\* type, parameters stripped, trimmed and lower-cased, starts with text/ or
\* is one of the five listed application types; any other type, also one that
\* only extends a listed name, is refused as not text.
C13_Original ==
  \A c \in Callers :
    LET k == calls[c]
    IN (k.gets = 1 /\ served.kind = "resp" /\ served.status = 200) =>
         ((k.err # Err("ErrNotTextFile")) <=> OnExactList(served.ctype))

\* Both calls of the race fetched the same locator, made their GET and ended
\* without error.
BothFetched(k1, k2) ==
  /\ k1.pc = "done" /\ k2.pc = "done" /\ k1.url = k2.url
  /\ k1.gets = 1 /\ k2.gets = 1 /\ k1.err = NoErr /\ k2.err = NoErr

\* C14 as stated: when two concurrent fetches of one locator have both
\* downloaded and finished, they returned the same path and the content file
\* holds the complete body one of the two downloaded, never anything else.
C14_Original ==
  LET k1 == calls[1]
      k2 == calls[2]
  IN BothFetched(k1, k2) =>
       /\ k1.ret = k2.ret /\ k1.ret = DocPath(k1.url)
       /\ files[k1.ret] \in {Bytes(k1.resp.body), Bytes(k2.resp.body)}

\* What a fetch running alone on an empty cache root leaves under its key,
\* given how far it got.
AloneResult(k) ==
  LET doc == files[DocPath(k.url)]
      meta == files[MetaPath(k.url)]
  IN CASE k.metaWrite = "ok" -> EntryIsResponse(k)
       [] k.metaWrite = "fail" -> doc = Bytes(k.resp.body) /\ meta \in {Absent, Truncated}
       [] k.metaWrite = "none" /\ k.docWrite = "fail" ->
            /\ meta = Absent
            /\ doc \in {Absent} \cup {Bytes(part) : part \in PartialBytes(k.content)}
       [] OTHER -> doc = Absent /\ meta = Absent

\* The state part of C15: once a fetch has ended, while no other call is for
\* the same locator, the two files of its key are as the fetch alone would
\* have left them.
C15_Alone ==
  \A c \in DOMAIN calls :
    (calls[c].pc = "done" /\ \A d \in DOMAIN calls \ {c} : calls[d].url # calls[c].url) =>
      AloneResult(calls[c])

\* The step part of C15: a step changes no file but the two of the key of the
\* call that takes it.
C15_Frame ==
  \A p \in Paths :
    files'[p] # files[p] =>
      \E c \in DOMAIN calls :
        calls'[c] # calls[c] /\ p \in {DocPath(calls[c].url), MetaPath(calls[c].url)}

\* C15: under any interleaving of fetches of distinct locators on one cache
\* root, no fetch touches the files of another locator, and the two files of
\* each locator end as its own fetch alone would have left them.
C15_DistinctKeysDoNotCollide == [](C15_Alone) /\ [][C15_Frame]_vars

C15_Witness ==
  /\ DOMAIN calls = Racers
  /\ calls[1].pc = "done" /\ calls[2].pc = "done"
  /\ calls[1].url = Url.a /\ calls[2].url = Url.b
  /\ calls[1].metaWrite = "ok" /\ calls[2].metaWrite = "ok"
  /\ files[DocPath(Url.a)] = Bytes(<<1>>) /\ files[DocPath(Url.b)] = Bytes(Fill(MaxSize, MaxSize))
  /\ EntryIsResponse(calls[1]) /\ EntryIsResponse(calls[2])

\* A step in which a call, its context being done, makes its conditional
\* request or its GET ends the call with an error and no path.
C16_Step ==
  \A c \in DOMAIN calls :
    (cancelled /\ calls[c].pc \in {"head", "fetch"} /\ calls'[c] # calls[c]) =>
      calls'[c].pc = "done" /\ calls'[c].err # NoErr /\ calls'[c].ret = NoPath

\* C16 as stated: every HTTP request of a fetch, the conditional request as
\* well as the GET, is bound to the caller's cancellation signal: made after
\* the signal was raised, the request is aborted and the fetch ends with an
\* error instead of completing.
C16_Original == [][C16_Step]_vars

\* The scan was ended by the cancellation signal.
ScanCancelled(w) == w.pc = "done" /\ w.err = Err("Walk")

\* The state part of C17: a scan ended by the signal returns the error and no
\* path at all, and the entry at which it saw the signal is the last one
\* visited and was not handled.
C17_Aborted ==
  ScanCancelled(walk) =>
    /\ cancelled
    /\ walk.ret = <<>>
    /\ walk.todo # <<>> /\ walk.visited[Len(walk.visited)] = Head(walk.todo)
    /\ Head(walk.todo) \notin {walk.files[i] : i \in 1..Len(walk.files)}

\* The step part of C17: whatever the entry (a file, a directory, a name whose
\* lstat failed), a visit made once the signal is raised ends the scan, with
\* the error, handling nothing and dropping the paths collected.
C17_Step ==
  (cancelled /\ walk.pc = "walking" /\ walk.todo # <<>> /\ walk' # walk) =>
    /\ ScanCancelled(walk') /\ walk'.ret = <<>>
    /\ walk'.files = walk.files /\ walk'.todo = walk.todo

\* C17: scanDirectory polls the cancellation signal at every visited entry,
\* before handling the entry or its error; once it sees the signal it stops
\* the walk, visits no further entry and returns an error with no paths,
\* discarding those collected so far.
C17_CancelledScanReturnsNothing == [](C17_Aborted) /\ [][C17_Step]_vars

C17_Witness ==
  /\ ScanCancelled(walk) /\ walk.ret = <<>>
  /\ Len(walk.files) >= 1
  /\ Stat(Head(walk.todo)).kind = "noent"

RECURSIVE Flatten(_)
Flatten(parts) == IF parts = <<>> THEN <<>> ELSE Head(parts) \o Flatten(Tail(parts))

\* The text files below a directory, depth first in lexical order: the files
\* that are reachable through listable directories, not hidden by name, and
\* of a listed extension.
RECURSIVE TextFilesBelow(_)
TextFilesBelow(path) ==
  LET node == Stat(path)
  IN IF AccessError(node) THEN <<>>
     ELSE IF node.kind = "dir"
     THEN Flatten([i \in 1..Len(node.names) |-> TextFilesBelow(Join(path, node.names[i]))])
     ELSE IF HasPrefix(BaseName(path), <<".">>) \/ ~IsTextFile(path) THEN <<>>
     ELSE <<path>>

\* What one locator is to contribute: the cached path of a URL, the absolute
\* path of a file, the recursive scan of a directory.
Contribution(doc) ==
  IF IsURL(doc) THEN <<DocPath(doc)>>
  ELSE IF Stat(Abs(doc)).kind = "dir" THEN TextFilesBelow(Abs(doc))
  ELSE <<Abs(doc)>>

\* C18: the output of a successful processDocuments is the concatenation, in
\* the order of the locators, of what each locator contributes: a URL its one
\* cached path, a file its one absolute path, a directory the result of
\* ScanDirectory(recursive) in place.
C18_OutputInLocatorOrder ==
  (batch.pc = "done" /\ batch.err = NoBatchErr) =>
    /\ Len(batch.parts) = Len(batch.docs)
    /\ \A i \in 1..Len(batch.docs) : batch.parts[i] = Contribution(batch.docs[i])
    /\ batch.ret = Flatten(batch.parts)

C18_Witness ==
  /\ batch.pc = "done" /\ batch.err = NoBatchErr
  /\ batch.docs = <<DirAt.d, Url.a>>
  /\ Len(batch.ret) = 4
  /\ batch.ret[1] = Join(DirAt.g, Name.x) /\ batch.ret[2] = Join(DirAt.d, Name.upper)
  /\ batch.ret[3] = Join(DirAt.s, Name.go) /\ batch.ret[4] = DocPath(Url.a)

\* The batch has failed at the locator of index i, after the locators
\* before it, and only they, were processed; it returns no path.
FailedFast ==
  /\ batch.ret = <<>>
  /\ batch.i <= Len(batch.docs)
  /\ Len(batch.parts) = batch.i - 1
  /\ batch.processedDocs = Flatten(batch.parts)
  /\ \A j \in (batch.i + 1)..Len(batch.docs) :
       IsURL(batch.docs[j]) /\ batch.docs[j] \notin {batch.docs[h] : h \in 1..batch.i} =>
         files[DocPath(batch.docs[j])] = Absent /\ returned[batch.docs[j]] = {}

FileLocators == {Join(Cwd, Name.m), Name.n}
AbsoluteOf(doc) == IF doc = Name.n THEN Join(Cwd, Name.n) ELSE doc
MissingLocators == {Name.q}

\* C20: a locator that names an existing single file contributes its absolute
\* path whatever its extension, and never fails the batch; a local path that
\* does not exist fails the batch.
C20_ExplicitFilesAreNotFiltered ==
  /\ \A i \in 1..Len(batch.parts) :
       /\ batch.docs[i] \in FileLocators => batch.parts[i] = <<AbsoluteOf(batch.docs[i])>>
       /\ batch.docs[i] \notin MissingLocators
  /\ (batch.pc = "done" /\ batch.err # NoBatchErr) =>
       batch.docs[batch.i] \notin FileLocators
  /\ (batch.pc = "done" /\ batch.i <= Len(batch.docs)
        /\ batch.docs[batch.i] \in MissingLocators) =>
       batch.err.kind = "access" /\ batch.ret = <<>>

C20_Witness ==
  /\ batch.pc = "done" /\ batch.err = NoBatchErr
  /\ batch.docs = <<Name.n, Join(Cwd, Name.m)>>
  /\ batch.ret = <<Join(Cwd, Name.n), Join(Cwd, Name.m)>>
  /\ ~IsTextFile(batch.ret[1])
  /\ Stat(batch.ret[1]).kind = "file"

\* A batch that has ended with a nil error.
BatchSucceeded == batch.pc = "done" /\ batch.err = NoBatchErr

\* A path is the cached content of a URL: the file is there, and the
\* metadata stored with it, where there is any, holds a Content-Type that
\* isTextContentType accepts.
CachedText(path, doc) ==
  /\ path = DocPath(doc) /\ files[path].kind = "bytes"
  /\ LET ld == LoadMetadata(files[MetaPath(doc)])
     IN ld.ok => isTextContentType(ld.meta.ContentType)

\* A path is an absolute path of an existing local file.
LocalFile(path) == HasPrefix(path, <<"/">>) /\ Stat(path).kind = "file"

ScanSucceeded(w) == w.pc = "done" /\ w.err = NoErr

\* The elements of a sequence.
Range(q) == {q[i] : i \in 1..Len(q)}

\* The entries directly under a directory.
EntriesOf(dir) == Range(Children(dir, Stat(dir)))

\* The text files directly under a directory, in lexical order.
DirectTextFiles(dir) ==
  LET below(i) == LET path == Join(dir, Stat(dir).names[i])
                  IN IF Stat(path).kind = "file" THEN TextFilesBelow(path) ELSE <<>>
  IN Flatten([i \in 1..Len(Stat(dir).names) |-> below(i)])

\* C22: a successful ScanDirectory(root, recursive = false) visits the root
\* and the entries directly under it and nothing else, and returns exactly the
\* non-hidden text files whose parent is the root, as absolute paths; with
\* recursive = true the files of every depth are returned.
C22_NonRecursiveStaysAtRoot ==
  ScanSucceeded(walk) =>
    IF walk.recursive
    THEN walk.ret = TextFilesBelow(walk.absPath)
    ELSE /\ Range(walk.visited) = {walk.absPath} \cup EntriesOf(walk.absPath)
         /\ walk.ret = DirectTextFiles(walk.absPath)
         /\ \A path \in Range(walk.ret) :
              path \in EntriesOf(walk.absPath) /\ HasPrefix(path, <<"/">>)

C22_Witness ==
  /\ ScanSucceeded(walk) /\ ~walk.recursive
  /\ walk.dirPath = Name.d /\ walk.absPath = DirAt.d
  /\ walk.ret = <<Join(DirAt.d, Name.upper)>>
  /\ DirAt.s \in Range(walk.visited) /\ Join(DirAt.s, Name.go) \notin Range(walk.visited)
  /\ Join(DirAt.d, Name.hidden) \in Range(walk.visited)

\* A path has, below the root, an element that starts with a dot: a hidden
\* file name, or a hidden directory the file lies in.
HiddenBelow(path, root) ==
  \E i \in (Len(Split(root)) + 1)..Len(Split(path)) : HasPrefix(Split(path)[i], <<".">>)

\* C23 as stated: for both values of recursive, no path returned by
\* scanDirectory has a dot-prefixed file name, and none lies inside a
\* dot-prefixed directory below the scan root.
C23_Original ==
  ScanSucceeded(walk) =>
    \A path \in Range(walk.ret) :
      ~HasPrefix(BaseName(path), <<".">>) /\ ~HiddenBelow(path, walk.absPath)

\* The root of a scan is refused before the walk starts: its path does not
\* pass ValidatePath, or there is no directory at it.
RootRefused(w) ==
  /\ w.err.kind \in {"ErrPathTraversal", "Stat", "ErrInvalidPath"}
  /\ w.visited = <<>> /\ w.ret = <<>>
  /\ ~ValidatePath(w.dirPath) \/ Stat(Abs(w.dirPath)).kind # "dir"

\* The walk went on after every entry: the entries of each listable directory
\* it entered were all visited, and each visited text file that is not hidden
\* is in the result.
WalkedOn(w) ==
  /\ \A dir \in Range(w.visited) :
       (Stat(dir).kind = "dir" /\ Stat(dir).readable /\ (dir = w.absPath \/ w.recursive)) =>
         EntriesOf(dir) \subseteq Range(w.visited)
  /\ \A path \in Range(w.visited) :
       path \in Range(w.ret) <=>
         Stat(path).kind = "file" /\ ~HasPrefix(BaseName(path), <<".">>) /\ IsTextFile(path)

RECURSIVE WalkOrder(_, _, _)
WalkOrder(path, root, recursive) ==
  LET node == Stat(path)
  IN IF node.kind = "dir" /\ node.readable /\ (path = root \/ recursive)
     THEN <<path>> \o Flatten([i \in 1..Len(node.names) |->
                                WalkOrder(Join(path, node.names[i]), root, recursive)])
     ELSE <<path>>

\* A visited entry that is to be in the result: not a directory, not hidden
\* by its name, its lower-cased extension on the list.
Kept(path) ==
  /\ Stat(path).kind = "file"
  /\ ~HasPrefix(BaseName(path), <<".">>)
  /\ ToLower(Ext(path)) \in textExtensions

\* C25: the result of a successful scanDirectory holds exactly the visited
\* entries that are files, not hidden by name and of a listed extension, in
\* the order of the depth-first walk, each as an absolute path and once.
C25_ResultIsFilteredWalk ==
  ScanSucceeded(walk) =>
    /\ walk.visited = WalkOrder(walk.absPath, walk.absPath, walk.recursive)
    /\ walk.ret = SelectSeq(walk.visited, Kept)
    /\ \A i, j \in 1..Len(walk.ret) : walk.ret[i] = walk.ret[j] => i = j
    /\ \A path \in Range(walk.ret) : HasPrefix(path, <<"/">>) /\ Ext(path) # EmptyStr

C25_Witness ==
  /\ ScanSucceeded(walk) /\ walk.recursive /\ walk.dirPath = <<".", "/">> \o Name.d
  /\ walk.ret = <<Join(DirAt.g, Name.x), Join(DirAt.d, Name.upper), Join(DirAt.s, Name.go)>>
  /\ {Join(DirAt.d, Name.hidden), Join(DirAt.d, Name.bin), Join(DirAt.d, Name.noExt)}
       \subseteq Range(walk.visited)

\* A path has ".." in it, as given or once cleaned.
HasDotDot(path) ==
  \/ \E i \in 1..(Len(path) - 1) : path[i] = "." /\ path[i + 1] = "."
  \/ \E i \in 1..(Len(Clean(path)) - 1) : Clean(path)[i] = "." /\ Clean(path)[i + 1] = "."

\* The state part of C26: a call on a path with ".." in it has failed with
\* the path-traversal error, and nothing was looked at.
C26_Refused ==
  (walk.pc # "idle" /\ HasDotDot(walk.dirPath)) =>
    /\ walk.pc = "done" /\ walk.err = Err("ErrPathTraversal")
    /\ walk.visited = <<>> /\ walk.ret = <<>>

\* The step part of C26: the validation changes nothing but the outcome of
\* the call.
C26_Frame ==
  (walk.pc = "idle" /\ walk' # walk) =>
    /\ UNCHANGED <<files, docsDir, calls, returned, cancelled, served, batch, trip, boot>>
    /\ walk'.dirPath = walk.dirPath

\* C26: ValidatePath fails with the path-traversal error for every path that
\* holds "..", in the path as given or in its cleaned form, and has no side
\* effect.
C26_DotDotIsRefused == [](C26_Refused) /\ [][C26_Frame]_vars

C26_Witness ==
  /\ walk.pc = "done" /\ walk.err = Err("ErrPathTraversal")
  /\ walk.dirPath = <<"a", "/", ".", ".">>
  /\ Clean(walk.dirPath) = <<".">>

\* The two paths of a locator's key.
KeyPaths(u) == {DocPath(u), MetaPath(u)}

NoIOFailure == trip.mkdir = "ok" /\ trip.write \in {"ok", "none"}

\* C28 as stated: for every entry, SaveMetadata followed by LoadMetadata on
\* the same path succeeds and returns an entry equal to the saved one in every
\* field, and SaveMetadata has created the parent directory.
C28_Original ==
  (trip.pc = "loaded" /\ NoIOFailure) =>
    /\ trip.err = NoErr /\ trip.loaded.ok
    /\ trip.loaded.meta = trip.entry
    /\ docsDir

\* The default directories, for the values the variables have when set.
DefaultDir ==
  [darwin |-> <<"/", "h", "/", "L", "i", "b", "r", "a", "r", "y", "/", "C", "a", "c", "h", "e", "s", "/", "d", "o", "n", "/", "r", "a", "g">>,
   windows |-> <<"/", "l", "/", "d", "o", "n", "/", "r", "a", "g">>,
   xdg |-> <<"/", "x", "/", "d", "o", "n", "/", "r", "a", "g">>,
   home |-> <<"/", "h", "/", ".", "c", "a", "c", "h", "e", "/", "d", "o", "n", "/", "r", "a", "g">>]

\* What the precedence chain gives: [ok, dir].
Resolved(b) ==
  LET set(name) == b.env[name] # EmptyStr
      dir(d) == [ok |-> TRUE, dir |-> d]
      none == [ok |-> FALSE, dir |-> EmptyStr]
  IN IF b.configDir # EmptyStr THEN dir(b.configDir)
     ELSE IF set(CacheDirEnv) THEN dir(EnvValue[CacheDirEnv])
     ELSE CASE b.goos = "darwin" -> IF set("HOME") THEN dir(DefaultDir.darwin) ELSE none
            [] b.goos = "windows" ->
                 IF set("LOCALAPPDATA") THEN dir(DefaultDir.windows) ELSE none
            [] b.goos = "linux" ->
                 IF set("XDG_CACHE_HOME") THEN dir(DefaultDir.xdg)
                 ELSE IF set("HOME") THEN dir(DefaultDir.home) ELSE none

C30_Original ==
  (boot.pc = "done" /\ boot.configDir = EmptyStr /\ boot.mkdir = "ok"
     /\ boot.env["DON_RAG_CACHE_DIR"] # EmptyStr) =>
    boot.cacheDir = boot.env["DON_RAG_CACHE_DIR"]

\* The content file of the call's locator holds the version the server has.
HoldsCurrent(k) == files[DocPath(k.url)] = Bytes(served.payload)

\* A finished call that found the content file and was not forced.
FoundCached(k) == k.pc = "done" /\ ~k.force /\ k.exists

ValidatorsDiffer(k) ==
  HasStoredValidators(k) /\ HeadAnswer(served, k.stored.ETag, k.stored.LastModified) # 304

Failure(k) ==
  CASE ~validateURL(k.url) -> "locator"
    [] validateURL(k.url) /\ k.get = 0 -> "transport"
    [] validateURL(k.url) /\ k.get \notin {0, 200} -> "status"
    [] k.get = 200 /\ (k.mkdir = "fail" \/ k.docWrite = "fail") -> "filesystem"
    [] OTHER -> "content"

Failed(k) == k.pc = "done" /\ k.err # NoErr

\* C32 as stated: the kind of failure of a fetch can be told from the kind of
\* its error alone: two failed fetches whose errors have the same type failed
\* in the same way; in particular a transport failure of the GET and a status
\* other than 200 give errors of different types.
C32_Original ==
  \A c1, c2 \in Racers :
    LET k1 == calls[c1]
        k2 == calls[c2]
    IN (Failed(k1) /\ Failed(k2) /\ GoType(k1.err) = GoType(k2.err)) =>
         Failure(k1) = Failure(k2)

\* The call of c may write under its key: its GET was answered 200 with an
\* allowed type and a body within the limit.
PassedValidation(k) ==
  /\ k.gets = 1 /\ k.get = 200
  /\ isTextContentType(k.resp.ctype)
  /\ Len(k.resp.body) <= MaxSize /\ k.content = k.resp.body

\* Response resp is one that takes call k from FETCH to PERSIST as after.
Persists(k, after, resp) ==
  /\ after.resp = [body |-> BodyOf(resp), etag |-> resp.etag, lm |-> resp.lm,
                   ctype |-> resp.ctype]
  /\ downloadWithValidation(resp, k.url, MaxSize).err = NoErr

C33_SizeBound ==
  \A u \in {Url.a, Url.ftp} :
    files[DocPath(u)].kind = "bytes" => Len(files[DocPath(u)].data) <= MaxSize

\* What a step of the call of c does to the files.
C33_Step ==
  \A c \in Racers :
    LET k == calls[c]
        after == calls'[c]
        docPath == DocPath(after.url)
    IN after # k =>
         /\ (k.pc = "fetch" /\ after.pc = "mkdir") =>
              \A resp \in KindOutcomes :
                Persists(k, after, resp) =>
                  /\ resp.status = 200 /\ isTextContentType(resp.ctype)
                  /\ resp.cl <= MaxSize /\ Len(BodyOf(resp)) <= MaxSize
         /\ files' # files =>
              /\ k.pc \in {"writeDoc", "writeMeta"} /\ PassedValidation(k)
              /\ \A p \in Paths \ {docPath, MetaPath(after.url)} : files'[p] = files[p]
         /\ (k.pc = "writeMeta" \/ k.mkdir = "none") => files'[docPath] = files[docPath]
         /\ (after.pc = "done" /\ after.err # NoErr /\ after.mkdir = "none") => files' = files

\* C33: a content file is written only by a fetch that has passed
\* validation (its GET was answered 200 with an allowed type, a declared
\* length and a body within the limit), so every content file a downloader
\* wrote is at most the limit long, and a fetch that ends with an error
\* before PERSIST has changed no file.
C33_PersistOnlyAfterValidation == [](C33_SizeBound) /\ [][C33_Step]_vars

C33_Witness ==
  \E c \in Racers :
    LET k == calls[c]
    IN /\ k.pc = "done" /\ k.err = Err("ErrFileTooLarge") /\ k.exists /\ k.gets = 1
       /\ files[DocPath(k.url)] = Bytes(Fill(1, MaxSize))
       /\ LoadMetadata(files[MetaPath(k.url)]).meta.Size = MaxSize

\* The metadata file of a locator describes its content file.
Describes(u) ==
  LET ld == LoadMetadata(files[MetaPath(u)])
  IN /\ ld.ok /\ files[DocPath(u)].kind = "bytes"
     /\ ld.meta.ContentHash = ComputeContentHash(files[DocPath(u)].data)
     /\ ld.meta.Size = Len(files[DocPath(u)].data)

\* C34 as stated: whenever no fetch is in progress and both the content file
\* and the metadata file of a locator exist, the metadata holds the hash and
\* the length of the content file.
C34_Original ==
  (\A c \in Callers : calls[c].pc \in {"idle", "done"}) =>
    \A u \in {Url.a} :
      (files[DocPath(u)] # Absent /\ files[MetaPath(u)] # Absent) => Describes(u)

\* A finished, non-forced call that found the content file of its locator
\* but no metadata it could load.
FoundWithoutMetadata(k) == FoundCached(k) /\ validateURL(k.url) /\ ~k.stored.ok

\* C35 as stated: such a fetch makes no conditional request and one GET, and
\* either fails or has replaced the content and the metadata by what the
\* response carried.
C35_Original ==
  \A c \in Callers :
    LET k == calls[c]
    IN FoundWithoutMetadata(k) =>
         /\ k.heads = 0 /\ k.gets = 1
         /\ k.err # NoErr \/ EntryIsResponse(k)

\* C35, amended: such a fetch makes no conditional request and one GET; it
\* either fails and returns no path, or returns the content path with the
\* content replaced by the response body, and with the metadata replaced
\* too when the metadata write succeeded.
C35_MissingMetadataIsAMiss ==
  \A c \in Callers :
    LET k == calls[c]
    IN FoundWithoutMetadata(k) =>
         /\ k.heads = 0 /\ k.gets = 1
         /\ k.err # NoErr => k.ret = NoPath
         /\ k.err = NoErr =>
              /\ k.ret = DocPath(k.url) /\ files[k.ret] = Bytes(k.resp.body)
              /\ k.metaWrite = "ok" => EntryIsResponse(k)

C35_Witness ==
  \E c \in Callers :
    LET k == calls[c]
    IN /\ FoundWithoutMetadata(k) /\ k.heads = 0 /\ k.gets = 1 /\ k.err = NoErr
       /\ k.metaWrite = "ok" /\ EntryIsResponse(k) /\ k.resp.etag = "e1"

\* The downloader was built, from the configuration of ProcessRAGSources.
BuiltByAgent == boot.pc = "done" /\ boot.err = NoErr /\ boot.config = AgentConfig

\* C36 as stated: the downloader ProcessRAGSources builds has the timeout of
\* DefaultConfig, 30 seconds, and no GET of it that the server answers in
\* less than 30 seconds ends as a transport failure.
C36_Original ==
  BuiltByAgent =>
    /\ boot.timeout = 30 * Second /\ boot.timeout = DefaultConfig.Timeout
    /\ \A c \in Callers :
         (calls[c].gets = 1 /\ served.latency < 30 * Second) => calls[c].get # 0

\* The server's answer is a 200 of an allowed type whose body, declared or
\* not, is within the limit of the downloader.
InLimit ==
  /\ served.status = 200 /\ isTextContentType(served.ctype)
  /\ Len(served.payload) <= boot.config.MaxSize
  /\ served.cl \in {-1, Len(served.payload)}

\* C37 as stated: under every limit that ValidateConfig accepts, a GET
\* answered with a body within the limit is accepted, its whole body is the
\* content of the call, and the content file holds it once written.
C37_Original ==
  \A c \in Callers :
    LET k == calls[c]
    IN (k.gets = 1 /\ k.get = 200 /\ InLimit) =>
         /\ k.err.kind \notin {"ErrFileTooLarge", "ErrNotTextFile", "ReadBody", "ErrDownloadFailed"}
         /\ k.content = served.payload
         /\ k.docWrite = "ok" => files[DocPath(k.url)] = Bytes(served.payload)

\* A local locator with ".." in it, as it was given to processDocuments.
Traverses(doc) == ~IsURL(doc) /\ Contains(doc, <<".", ".">>)

\* C38: a local file or directory locator that holds ".." is refused with the
\* path-traversal error and contributes no path to the output, whether the
\* path it denotes exists or not.
C38_Original ==
  /\ \A i \in 1..Len(batch.parts) : ~Traverses(batch.docs[i])
  /\ (batch.pc = "done" /\ batch.i <= Len(batch.docs) /\ Traverses(batch.docs[batch.i])) =>
       batch.err.cause = Err("ErrPathTraversal") /\ batch.ret = <<>>

\* The check of ValidatePath on the path as given, before cleaning.
RawCheckRefuses(path) == Contains(path, <<".", ".">>)

\* C39: the verdict of ValidatePath is that of the check on the raw path:
\* cleaning never brings in a ".." that the raw path did not hold, so the
\* check after cleaning refuses nothing the raw check let through, and a call
\* is refused with the path-traversal error exactly when the raw path holds
\* two dots in a row, in a name such as "a..a" as well.
C39_RawCheckDecides ==
  /\ Contains(Clean(walk.dirPath), <<".", ".">>) => RawCheckRefuses(walk.dirPath)
  /\ ValidatePath(walk.dirPath) <=> ~RawCheckRefuses(walk.dirPath)
  /\ walk.pc # "idle" =>
       (walk.err = Err("ErrPathTraversal") <=> RawCheckRefuses(walk.dirPath))

C39_Witness ==
  /\ walk.pc = "done" /\ walk.err = Err("ErrPathTraversal")
  /\ walk.dirPath = <<"a", ".", ".", "a">>
  /\ Split(walk.dirPath) = <<walk.dirPath>> /\ Clean(walk.dirPath) = walk.dirPath
  /\ walk.visited = <<>>

\* A call is under way: Download was entered and has not returned.
Running(c) == calls[c].pc \notin {"idle", "done"}

\* What a call has done so far: at most one HEAD and at most one GET, and once
\* returned it holds a path and no error, or an error and no path.
C40_Requests ==
  \A c \in Callers :
    /\ calls[c].heads <= 1 /\ calls[c].gets <= 1
    /\ calls[c].pc = "done" =>
         \/ calls[c].err = NoErr /\ calls[c].ret # NoPath
         \/ calls[c].err # NoErr /\ calls[c].ret = NoPath

\* The HEAD of a call is made before its GET, never after it.
C40_Order ==
  \A c \in Callers :
    (Running(c) /\ calls'[c].heads > calls[c].heads) =>
      calls[c].gets = 0 /\ calls'[c].gets = 0

\* C40: every call of Download ends, with a path or with an error, having
\* made at most one conditional request and after it at most one GET; nothing
\* is tried twice.
C40_EveryCallEnds ==
  /\ [](C40_Requests)
  /\ [][C40_Order]_vars
  /\ \A c \in Callers : Running(c) ~> calls[c].pc = "done"

C40_Witness ==
  \E c \in Callers :
    /\ calls[c].pc = "done" /\ calls[c].err = NoErr
    /\ calls[c].heads = 1 /\ calls[c].head = 200
    /\ calls[c].gets = 1 /\ calls[c].get = 200
    /\ calls[c].ret = DocPath(calls[c].url)

====
